---------------------------- MODULE Spec2Model ----------------------------
(***************************************************************************)
(* A model of the wirables discrete-event simulation kernel:               *)
(*   - EventTime ordering            (event.py)                            *)
(*   - Sequencer.add / run / step / until / awhile   (sequencer.py)        *)
(*   - the Device input/action wrapper, act / out / xto   (device.py)      *)
(*                                                                         *)
(* Simulated times are floats in the program; only their order and their   *)
(* sums are used, so they are modelled by small naturals.                  *)
(***************************************************************************)
EXTENDS Integers, Sequences, FiniteSets, TLC

(***************************************************************************)
(* Bounds of the model.                                                    *)
(***************************************************************************)
MaxTime == 1
MaxPriority == 1
MaxEvents == 3
MaxBatch == 2
MaxSteps == 2
MaxOps == 2
MaxOutsideOps == 1
MaxMgmt == 3
MaxSetup == 2
MaxSigOps == 4

VARIABLES
    events,       \* Sequencer._events : the pending list, as event ids
    time,         \* Sequencer.time : an EventTime
    pc,           \* "idle", or "running" while inside Sequencer.run's loop
    halt_steps,   \* run's local halt_steps (-1 when no run is active)
    stop,         \* run's local stop : <<>> for None, else <<EventTime>>
    run_steps,    \* run's steps argument (-1 : None, or no run is active)
    halt,         \* how the latest finished run ended
    run_mode,     \* which call entered the current/latest run
    evs,          \* the Event objects created so far : id -> [time : EventTime]
    dispatched,   \* ids of the events whose action() was called, in call order
    run_count,    \* number of action() calls made by the current/latest run
    n_added,      \* number of events passed to Sequencer.add so far
    state,        \* Device.state
    current_time, \* Device._current_time : <<>> for None, else <<EventTime>>
    further_acts, \* Device._further_acts : the deferred events
    out1,         \* the output Signal out1 : [value, previous_value]
    dpc,          \* "outside", or "body" while a handler body is executing
    handler,      \* the input/action whose body is executing, or "none"
    n_ops,        \* act / out / xto calls made since the latest handler
                  \* invocation began or ended
    produced,     \* the events act and out made during the current/latest
                  \* handler invocation, in call order
    outcome,      \* how the latest input/action call ended, and with what
    last_op,      \* the latest act / out / xto call, and how it ended
    clients,      \* out1.connected_clients : the connections, in list order
    down_acts,    \* _further_acts of the device downstream of out1
    prehooks,     \* Device._prehooks : component name -> list of hooks
    posthooks,    \* Device._posthooks
    output_hooks, \* Device._output_hooks : output name -> list of hooks
    n_conns,      \* number of hook connections created so far
    calls,        \* the hook callbacks invoked since the latest handler
                  \* invocation began, in call order
    mgmt,         \* the latest hook / unhook / trace / untrace call
    signal,       \* a Signal : [value, previous_value]
    connected_clients, \* Signal.connected_clients, in list order
    trace_connection,  \* Signal._trace_connection : <<>> for None
    handles,      \* the connections Signal.connect has returned, in order
    notified,     \* the calls the latest Signal.update made, in call order
    sig_op,       \* the latest call of a method of the Signal
    cmp,          \* the operands of the comparisons made, and the results
    attrs,        \* the attributes the handlers of TrialDevice set
    ask,          \* Sequencer.interact : the latest line read, and what it did
    held,         \* a list a caller keeps and passes to Device.xto
    script        \* what the callback of each seeded event returns when
                  \* called : a list of EventTimes per event id

seqvars == <<events, time, pc, halt_steps, stop, run_steps, halt, run_mode,
             evs, dispatched, run_count, n_added>>

\* The hook tables and the wiring of the output
hooktabs == <<clients, prehooks, posthooks, output_hooks, n_conns, mgmt>>

devvars == <<state, current_time, further_acts, out1, dpc, handler, n_ops,
             produced, outcome, last_op, down_acts, calls, hooktabs>>

sigvars == <<signal, connected_clients, trace_connection, handles, notified,
             sig_op>>

\* TrialDevice's own attributes, the interact loop, a caller's list, the
\* callbacks of the seeded events
extvars == <<attrs, ask, held, script>>

vars == <<seqvars, devvars, sigvars, cmp, extvars>>

(***************************************************************************)
(* EventTime                                                               *)
(***************************************************************************)
EventTime(t, p) == [time |-> t, priority |-> p]

\* EventTime.__eq__
EventTime_eq(a, b) == a.time = b.time /\ a.priority = b.priority

\* The lower priority first at equal times.
EventTime_lt_lowfirst(a, b) ==
    \/ a.time < b.time
    \/ (a.time = b.time /\ a.priority < b.priority)

\* EventTime.__lt__
EventTime_lt(a, b) ==
    \/ a.time < b.time
    \/ (a.time = b.time /\ a.priority > b.priority)

\* functools.total_ordering derives >= from __lt__ as "not a < b"
EventTime_ge(a, b) == ~EventTime_lt(a, b)

\* EventTime + offset : summed time, priority reset to 0
EventTime_add(a, offset) == EventTime(a.time + offset, 0)

Times == 0..MaxTime
Priorities == 0..MaxPriority
EventTimes == {EventTime(t, p) : t \in Times, p \in Priorities}

\* The EventTimes compared : priorities may be negative
ComparedTimes == {EventTime(t, p) : t \in Times, p \in -1..MaxPriority}

\* Three EventTimes a, b, c not compared yet
Operands(a, b, c) ==
    [a |-> a, b |-> b, c |-> c, done |-> FALSE, lt_ab |-> FALSE,
     lt_ba |-> FALSE, eq_ab |-> FALSE, lt_bc |-> FALSE, lt_ac |-> FALSE]

\* No comparison was made yet
NoCmp == Operands(EventTime(0, 0), EventTime(0, 0), EventTime(0, 0))

CmpInit == cmp = NoCmp

(***************************************************************************)
(* Sequencer._sort : sorted(self._events, key=lambda event: event.time).   *)
(* Python's sorted is stable and compares keys with < only.                *)
(***************************************************************************)
RECURSIVE InsertByTime(_, _, _)
InsertByTime(s, e, reg) ==
    IF s = <<>> THEN <<e>>
    ELSE IF EventTime_lt(reg[e].time, reg[Head(s)].time)
         THEN <<e>> \o s
         ELSE <<Head(s)>> \o InsertByTime(Tail(s), e, reg)

RECURSIVE SortFrom(_, _, _)
SortFrom(done, todo, reg) ==
    IF todo = <<>> THEN done
    ELSE SortFrom(InsertByTime(done, Head(todo), reg), Tail(todo), reg)

\* A sort that is not stable: ties come out in reverse insertion order.
Sort_unstable(q, reg) ==
    SortFrom(<<>>, [i \in 1..Len(q) |-> q[Len(q) + 1 - i]], reg)

Sort(q, reg) == SortFrom(<<>>, q, reg)

(***************************************************************************)
(* Sequencer                                                               *)
(***************************************************************************)
SeqInit ==
    /\ events = <<>>
    /\ time = EventTime(0, 0)
    /\ pc = "idle"
    /\ halt_steps = -1
    /\ stop = <<>>
    /\ run_steps = -1
    /\ halt = "none"
    /\ run_mode = "none"
    /\ evs = <<>>
    /\ dispatched = <<>>
    /\ run_count = 0
    /\ n_added = 0

\* The new Event objects a caller or a callback constructs: a list of n
\* events, each with any time; their ids continue the registry.
NewEventLists(n) == [1..n -> EventTimes]

Ids(from, n) == [i \in 1..n |-> from + i]

Registered(reg, ets) == reg \o [i \in 1..Len(ets) |-> [time |-> ets[i]]]

\* How many more Event objects the model lets one call construct.
Room == IF MaxEvents - Len(evs) < MaxBatch THEN MaxEvents - Len(evs)
        ELSE MaxBatch

\* Sequencer.add(event_or_events), called between runs
Add(ets) ==
    /\ pc = "idle"
    /\ evs' = Registered(evs, ets)
    /\ events' = events \o Ids(Len(evs), Len(ets))
    /\ n_added' = n_added + Len(ets)
    /\ UNCHANGED <<time, pc, halt_steps, stop, run_steps, halt, run_mode,
                   dispatched, run_count>>
    /\ UNCHANGED <<devvars, sigvars, cmp, extvars>>

\* The stop time run works with: period overrides stop.
StopTime(now, period, stop_arg) ==
    IF period # <<>> THEN <<EventTime_add(now, period[1])>>
    ELSE IF stop_arg # <<>> THEN <<EventTime(stop_arg[1], 0)>>
    ELSE <<>>

\* Sequencer.run(steps, period=, stop=) up to the first test of the loop
\* condition, entered directly or through step / until / awhile (mode).
\* steps = -1 models None; period and stop_arg are <<>> for None.
RunCall(mode, steps, period, stop_arg) ==
    /\ pc = "idle"
    /\ run_mode' = mode
    /\ run_count' = 0
    /\ IF events = <<>>
       THEN /\ pc' = "idle"
            /\ halt' = "empty"
            /\ UNCHANGED <<halt_steps, stop, run_steps>>
       ELSE /\ pc' = "running"
            /\ halt' = halt
            /\ halt_steps' = steps
            /\ stop' = StopTime(time, period, stop_arg)
            /\ run_steps' = steps
    /\ UNCHANGED <<events, time, evs, dispatched, n_added>>

\* run called by the user of the Sequencer
RunEnter(mode, steps, period, stop_arg) ==
    /\ RunCall(mode, steps, period, stop_arg)
    /\ UNCHANGED <<devvars, sigvars, cmp, extvars>>

\* The check left out.
BackwardsStep_never(next_time, now) == FALSE

\* The check made on the numeric times alone.
BackwardsStep_timeonly(next_time, now) == next_time.time < now.time

\* The check made with <= : an event at the current time is refused.
BackwardsStep_strict(next_time, now) == ~EventTime_lt(now, next_time)

\* if next_time < self.time : raise
BackwardsStep(next_time, now) == EventTime_lt(next_time, now)

\* The test made with > : an event at the stop time is still dispatched.
StopReached_after(now, stop_time) ==
    stop_time # <<>> /\ EventTime_lt(stop_time[1], now)

\* The test made on the numeric times alone, whatever the priority.
StopReached_numeric(now, stop_time) ==
    stop_time # <<>> /\ now.time >= stop_time[1].time

\* if stop is not None and self.time >= EventTime(stop) : break
StopReached(now, stop_time) ==
    stop_time # <<>> /\ EventTime_ge(now, stop_time[1])

\* The counter tested with <= 0 : the run halts one event early.
StepsExhausted_early(steps_left) == steps_left >= 0 /\ steps_left - 1 <= 0

\* if halt_steps >= 0: halt_steps -= 1; if halt_steps < 0: break
StepsExhausted(steps_left) == steps_left >= 0 /\ steps_left - 1 < 0

\* The list left in reverse order.
LeftPending_reversed(sorted) ==
    [i \in 1..Len(sorted) |-> sorted[Len(sorted) + 1 - i]]

\* The head event taken off the list before the run halts.
LeftPending_popped(sorted) == Tail(sorted)

\* self._events when run leaves the loop by raise or break: the sorted
\* list, the head event still in it
LeftPending(sorted) == sorted

\* The returned events forgotten.
Merged_dropped(rest, new_ids) == rest

\* events += new_events; self._events = events
Merged(rest, new_ids) == rest \o new_ids

\* run returns or raises: its locals are gone
RunEnds(reason) ==
    /\ pc' = "idle"
    /\ halt' = reason
    /\ halt_steps' = -1
    /\ stop' = <<>>
    /\ run_steps' = -1

\* One pass of the body of run's while loop; new_ets are the events the
\* dispatched callback returns, added_ets the events it passes to
\* Sequencer.add before it returns. add extends the list self._events names
\* during the call, the sorted list; run then assigns self._events the list
\* it sliced off before the call, with the returned events.
RunPass(new_ets, added_ets) ==
    /\ pc = "running"
    /\ LET sorted == Sort(events, evs)
           event == Head(sorted)
           rest == Tail(sorted)
           next_time == evs[event].time
       IN  IF BackwardsStep(next_time, time)
           THEN /\ new_ets = <<>> /\ added_ets = <<>>
                /\ events' = LeftPending(sorted)
                /\ RunEnds("backwards")
                /\ UNCHANGED <<time, evs, dispatched, run_count>>
           ELSE IF StopReached(next_time, stop)
           THEN /\ new_ets = <<>> /\ added_ets = <<>>
                /\ time' = next_time
                /\ events' = LeftPending(sorted)
                /\ RunEnds("stop")
                /\ UNCHANGED <<evs, dispatched, run_count>>
           ELSE IF StepsExhausted(halt_steps)
           THEN /\ new_ets = <<>> /\ added_ets = <<>>
                /\ time' = next_time
                /\ events' = LeftPending(sorted)
                /\ RunEnds("steps")
                /\ UNCHANGED <<evs, dispatched, run_count>>
           ELSE /\ time' = next_time
                /\ dispatched' = Append(dispatched, event)
                /\ run_count' = run_count + 1
                /\ evs' = Registered(Registered(evs, added_ets), new_ets)
                /\ events' = Merged(rest, Ids(Len(evs) + Len(added_ets),
                                              Len(new_ets)))
                /\ IF events' = <<>>
                   THEN RunEnds("empty")
                   ELSE /\ pc' = "running"
                        /\ halt' = halt
                        /\ halt_steps' = (IF halt_steps >= 0
                                          THEN halt_steps - 1
                                          ELSE halt_steps)
                        /\ UNCHANGED <<stop, run_steps>>
    /\ n_added' = n_added + Len(added_ets)
    /\ UNCHANGED run_mode

\* A pass with a callback that touches nothing but the Sequencer
RunBody(new_ets, added_ets) ==
    /\ RunPass(new_ets, added_ets)
    /\ UNCHANGED <<devvars, sigvars, cmp, extvars>>

\* A pass in which the callback, if one is called, leaves add alone
RunLoop(new_ets) == RunBody(new_ets, <<>>)

\* Sequencer.run()
Run == RunEnter("run", -1, <<>>, <<>>)

\* Sequencer.step(steps)
Step == \E n \in 0..MaxSteps : RunEnter("step", n, <<>>, <<>>)

\* Sequencer.until(time)
Until == \E t \in Times : RunEnter("until", -1, <<>>, <<t>>)

\* Sequencer.awhile(time)
Awhile == \E dt \in Times : RunEnter("awhile", -1, <<dt>>, <<>>)

AddEvents == \E n \in 1..Room : \E ets \in NewEventLists(n) : Add(ets)

RunIteration == \E n \in 0..Room : \E ets \in NewEventLists(n) : RunLoop(ets)


(***************************************************************************)
(* Python values a handler can return: None, a list or tuple of Events, or *)
(* one Event.                                                              *)
(***************************************************************************)
PyNone == [kind |-> "None", items |-> <<>>]
PyList(s) == [kind |-> "list", items |-> s]
PyTuple(s) == [kind |-> "tuple", items |-> s]
PyEvent(e) == [kind |-> "Event", items |-> <<e>>]

\* bool(x) : None and empty sequences are false, an Event object is true
Truthy(x) == x.kind = "Event" \/ (x.kind \in {"list", "tuple"} /\ x.items # <<>>)

(***************************************************************************)
(* Signal values and the output signal                                     *)
(***************************************************************************)
SIG_UNDEFINED == "<undefined-value>"
SIG_ZERO == "0"
SIG_START_DEFAULT == SIG_ZERO

\* Event(time, call, value, context)
Event(t, call, value, context) ==
    [time |-> t, callback |-> call, value |-> value, context |-> context]

\* SignalConnection(call, call_context) : a dataclass, so two connections
\* are equal when both fields are; id tells the objects apart, and
\* asked_after notes the call_after argument a hook was installed with.
SignalConnection(id, call, call_context, asked_after) ==
    [id |-> id, call |-> call, call_context |-> call_context,
     asked_after |-> asked_after]

\* Connections compared as objects.
SameConn_identity(a, b) == a.id = b.id

\* connection == other
SameConn(a, b) == a.call = b.call /\ a.call_context = b.call_context

\* connection in connections
ConnIn(c, s) == \E i \in DOMAIN s : SameConn(s[i], c)

\* The callables connected to out1 beside hooks: "sink" returns nothing,
\* "sched" is an input of a downstream device that schedules one of its
\* own actions with act, "loop" is the input in1 of the device itself.
SINK == SignalConnection(0, "sink", "None", FALSE)
SCHED == SignalConnection(0, "sched", "None", FALSE)
LOOP == SignalConnection(0, "loop", "None", FALSE)

\* The ways out1 is wired before the simulation runs
Wirings == {<<SINK, SCHED>>, <<SINK, SCHED, LOOP>>}

\* Hook callbacks are noted: which hook, for which component, and whether
\* the operation it hooks had taken effect. "trace" returns nothing; "cb"
\* returns a list of one new Event.
HookCallbacks == {"cb", "trace"}

\* The Event a "cb" hook callback returns when called at time t
HookReturn(t) == Event(EventTime_add(t, 0), "cb.spawned", "None", "None")

Noted(c, comp, done) == [id |-> c.id, comp |-> comp, done |-> done]

\* The Event left out of the buffer.
Scheduled_lost(buffer, event) == buffer

\* self._further_acts.append(event)
Scheduled(buffer, event) == Append(buffer, event)

\* if inner_results: (wrap unless a list or tuple); _further_acts.extend(...)
Extended(buffer, inner_results) ==
    IF Truthy(inner_results) THEN buffer \o inner_results.items
    ELSE buffer

\* The buffer not reset: the events stay for the next invocation.
Drained_kept(buffer) == buffer

\* self._further_acts = [] : the buffer after the results were taken
Drained(buffer) == <<>>

\* The input of the downstream device, called through its wrapper at time
\* t: its body calls act once and returns None; the wrapper returns what
\* its buffer then holds.
DownResults(buffer, t) ==
    Extended(Scheduled(buffer,
                       Event(EventTime_add(t, 1), "down.act_next", "None", "None")),
             PyNone)

\* The first connection whose call raises when called inside an operation
\* of this device (the device's own input: its guard is set), or 0
RECURSIVE FirstRaising(_, _)
FirstRaising(conns, i) ==
    IF i > Len(conns) THEN 0
    ELSE IF conns[i].call = "loop" THEN i
    ELSE FirstRaising(conns, i + 1)

\* The connections Signal.update gets to call
Reached(conns) ==
    IF FirstRaising(conns, 1) = 0 THEN conns
    ELSE SubSeq(conns, 1, FirstRaising(conns, 1) - 1)

ClientCall(client, t, value, buffer) ==
    IF client.call = "sched" THEN DownResults(buffer, t)
    ELSE IF client.call = "cb" THEN <<HookReturn(t)>>
    ELSE <<>>

\* further_events of Signal.update : what the connections return, in order
RECURSIVE Broadcast(_, _, _, _)
Broadcast(conns, t, value, buffer) ==
    IF conns = <<>> THEN <<>>
    ELSE ClientCall(Head(conns), t, value, buffer)
             \o Broadcast(Tail(conns), t, value, buffer)

\* The hook callbacks among the connections called, as noted
RECURSIVE ClientNotes(_)
ClientNotes(conns) ==
    IF conns = <<>> THEN <<>>
    ELSE (IF Head(conns).call \in HookCallbacks
          THEN <<Noted(Head(conns), "out1", TRUE)>> ELSE <<>>)
             \o ClientNotes(Tail(conns))

\* The value held before not kept.
Updated_noprev(sig, value) ==
    [value |-> value, previous_value |-> sig.previous_value]

\* Signal.update(time, value) on a signal sig : the signal afterwards
Updated(sig, value) == [value |-> value, previous_value |-> sig.value]

(***************************************************************************)
(* Device : the declarations of TrialDevice                                *)
(***************************************************************************)
STATES == <<"idle", "changing">>
InputNames == {"in1"}
ActionNames == {"act_newdata", "newdata"}

StateSet == {STATES[i] : i \in DOMAIN STATES}

\* Arguments the model's callers pass
StateArgs == StateSet \cup {"nosuch"}
\* action_or_name : a str, or a callable (named here by what it is)
StrArg(name) == [callable |-> FALSE, name |-> name]
FuncArg(name) == [callable |-> TRUE, name |-> name]

ActArgs == {StrArg("newdata"), StrArg("act_newdata"), StrArg("nosuch"),
            FuncArg("newdata"), FuncArg("other")}
OutValues == {"None", "1"}
HandlerValues == {"None", "1", "unsupported"}

\* The times handlers are called at
DevTimes == {0, MaxTime}

\* The time act is given
ActTimes == {MaxTime}

Elems(s) == {s[i] : i \in DOMAIN s}

\* A hook table is a dict: only the names it has as keys are in its domain.
NoHooks == [n \in {} |-> <<>>]

\* hookset.get(name, [])
Get(hookset, name) == IF name \in DOMAIN hookset THEN hookset[name] ELSE <<>>

\* The hooks called last to first.
HookCalls_reversed(hookset, name, done) ==
    [i \in 1..Len(Get(hookset, name)) |->
        Noted(Get(hookset, name)[Len(Get(hookset, name)) + 1 - i], name, done)]

\* call_hooks(hookset) of _run_with_hooks : the hooks of name, in list order
HookCalls(hookset, name, done) ==
    [i \in 1..Len(Get(hookset, name)) |-> Noted(Get(hookset, name)[i], name, done)]

\* _run_with_hooks(name, ...) around a block that completes: pre-hooks, the
\* block, post-hooks
RunWithHooks(name, block) ==
    HookCalls(prehooks, name, FALSE) \o block \o HookCalls(posthooks, name, TRUE)

\* No hook given or returned
NoHandle == SignalConnection(0, "None", "None", FALSE)

\* No hook management call was made yet
NoMgmt ==
    [op |-> "none", name |-> "None", handle |-> NoHandle, raised |-> FALSE,
     before |-> [pre |-> NoHooks, post |-> NoHooks, outh |-> NoHooks,
                 clients |-> <<>>],
     n |-> 0, paired |-> FALSE]

\* Device.__init__, and add_output("out1"), before out1 is connected
DevStart ==
    /\ down_acts = <<>>
    /\ prehooks = NoHooks
    /\ posthooks = NoHooks
    /\ output_hooks = NoHooks
    /\ n_conns = 0
    /\ calls = <<>>
    /\ mgmt = NoMgmt
    /\ state = STATES[1]
    /\ current_time = <<>>
    /\ further_acts = <<>>
    /\ out1 = [value |-> SIG_START_DEFAULT, previous_value |-> SIG_UNDEFINED]
    /\ dpc = "outside"
    /\ handler = "none"
    /\ n_ops = 0
    /\ produced = <<>>
    /\ outcome = [kind |-> "none", value |-> PyNone, raw |-> PyNone,
                  nested |-> FALSE]
    /\ last_op = [op |-> "none", inside |-> FALSE, raised |-> FALSE,
                  state_before |-> STATES[1], state_named |-> TRUE,
                  names_valid |-> TRUE, new_given |-> FALSE,
                  action_or_name |-> StrArg("None")]

DevInit == clients \in Wirings /\ DevStart

\* The assertion left out.
GuardFree_always == TRUE

\* How many act / out / xto calls the model makes in one handler body, and
\* between two handler invocations.
OpsLeft == IF dpc = "body" THEN MaxOps ELSE MaxOutsideOps

\* assert self._current_time is None
GuardFree == current_time = <<>>

\* the match on value in wrapper_call : any other type is a TypeError
ValueSupported(value) == value # "unsupported"

\* How a call of a wrapper ends when it raises; nested tells whether the
\* call was made by an executing handler body of the same device.
Failed(nested) ==
    [kind |-> "raised", value |-> PyNone, raw |-> PyNone, nested |-> nested]

\* A call of an input or action wrapper, up to the start of the handler
\* body: by anyone while no body is executing, or by the executing body of
\* a handler of this device (a nested call, whose exception ends the
\* calling body as well).
Call(h, t, value) ==
    /\ IF ~GuardFree
       THEN \* AssertionError
            /\ outcome' = Failed(dpc = "body")
            /\ IF dpc = "body"
               THEN /\ dpc' = "outside"
                    /\ handler' = "none"
                    /\ n_ops' = 0
                    /\ produced' = <<>>
               ELSE UNCHANGED <<dpc, handler, n_ops, produced>>
            /\ UNCHANGED <<current_time, calls>>
       ELSE /\ current_time' = <<EventTime(t, 0)>>
            /\ IF ~ValueSupported(value)
               THEN \* TypeError, raised after the guard was set
                    /\ outcome' = Failed(dpc = "body")
                    /\ UNCHANGED <<dpc, handler, n_ops, produced, calls>>
               ELSE \* the pre-hooks of h run, then its body starts
                    /\ calls' = HookCalls(prehooks, h, FALSE)
                    /\ dpc' = "body"
                    /\ handler' = h
                    /\ n_ops' = 0
                    /\ produced' = <<>>
                    /\ outcome' = [kind |-> "none", value |-> PyNone,
                                   raw |-> PyNone, nested |-> (dpc = "body")]
    /\ UNCHANGED <<state, further_acts, out1, last_op, down_acts, hooktabs>>
    /\ UNCHANGED <<seqvars, sigvars, cmp, extvars>>

\* An exception leaves the handler body and wrapper_call: nothing is undone.
\* nested : it came from a nested call of a wrapper of this device.
AbortedBy(nested) ==
    /\ dpc' = "outside"
    /\ handler' = "none"
    /\ n_ops' = 0
    /\ produced' = <<>>
    /\ outcome' = Failed(nested)

Aborted == AbortedBy(FALSE)

\* What is noted of the arguments of an xto call, as passed: whether
\* current_states named the state the device was in, whether every name
\* was one of STATES, and whether a new_state was given
XtoArgs(current_states, new_state) ==
    [state_named |-> state \in Elems(current_states),
     names_valid |-> /\ \A i \in DOMAIN current_states :
                            current_states[i] \in StateSet
                     /\ new_state \in StateSet \cup {"None"},
     new_given |-> new_state # "None",
     action_or_name |-> StrArg("None")]

NoXtoArgs == [state_named |-> TRUE, names_valid |-> TRUE, new_given |-> FALSE,
              action_or_name |-> StrArg("None")]

\* What is noted of an act call: the action_or_name argument
ActArg(action_or_name) == [NoXtoArgs EXCEPT !.action_or_name = action_or_name]

\* The bookkeeping of one act / out / xto call; nested : it raised because
\* it called, through a connection, a wrapper of this device
OpEnds(op, raised, args, nested) ==
    /\ last_op' = [op |-> op, inside |-> (dpc = "body"), raised |-> raised,
                   state_before |-> state, state_named |-> args.state_named,
                   names_valid |-> args.names_valid,
                   new_given |-> args.new_given,
                   action_or_name |-> args.action_or_name]
    /\ IF dpc = "body" /\ raised THEN AbortedBy(nested)
       ELSE /\ n_ops' = n_ops + 1
            /\ UNCHANGED <<dpc, handler, outcome>>

OpRecord(op, raised, args) == OpEnds(op, raised, args, FALSE)

\* The plain name tried first.
ResolveAction_plainfirst(action_or_name) ==
    IF action_or_name.callable THEN action_or_name.name
    ELSE IF action_or_name.name \in ActionNames THEN action_or_name.name
    ELSE IF ("act" \o action_or_name.name) \in ActionNames
         THEN "act" \o action_or_name.name
    ELSE IF ("act_" \o action_or_name.name) \in ActionNames
         THEN "act_" \o action_or_name.name
    ELSE "None"

\* Device.act finds the action : a callable is taken as it is, for a str
\* the prefixes "act_", "act", "" are tried in this order
ResolveAction(action_or_name) ==
    IF action_or_name.callable THEN action_or_name.name
    ELSE IF ("act_" \o action_or_name.name) \in ActionNames
         THEN "act_" \o action_or_name.name
    ELSE IF ("act" \o action_or_name.name) \in ActionNames
         THEN "act" \o action_or_name.name
    ELSE IF action_or_name.name \in ActionNames THEN action_or_name.name
    ELSE "None"

\* if self._current_time is None : raise   (act, out and xto alike)
NotInHandler == current_time = <<>>

\* Device.act(action_or_name, time), called by a handler body or, when no
\* handler is executing, by anyone
Act(action_or_name, t) ==
    /\ n_ops < OpsLeft
    /\ LET action == ResolveAction(action_or_name)
           raised == NotInHandler \/ action \notin ActionNames
           event == Event(EventTime(t, 0), action, "None", "None")
       IN  /\ OpRecord("act", raised, ActArg(action_or_name))
           /\ IF raised
              THEN /\ UNCHANGED <<further_acts, calls>>
                   /\ dpc = "outside" => UNCHANGED produced
              ELSE /\ further_acts' = Scheduled(further_acts, event)
                   /\ produced' = (IF dpc = "body" THEN Append(produced, event)
                                   ELSE produced)
                   /\ calls' = calls \o RunWithHooks("act", <<>>)
    /\ UNCHANGED <<state, current_time, out1, down_acts, hooktabs>>
    /\ UNCHANGED <<seqvars, sigvars, cmp, extvars>>

\* The events of the connections not passed on.
Collected_dropped(buffer, new_events) == buffer

\* if new_events: self._further_acts.extend(new_events)
Collected(buffer, new_events) == buffer \o new_events

\* Device.out("out1", value)
Out(value) ==
    /\ n_ops < OpsLeft
    /\ LET sent == IF value = "None" THEN SIG_UNDEFINED ELSE value
           \* a connection to an input of this device meets the guard
           looped == ~GuardFree /\ FirstRaising(clients, 1) # 0
           called == IF looped THEN Reached(clients) ELSE clients
           new_events == Broadcast(called, current_time[1], sent, down_acts)
       IN  IF NotInHandler
           THEN /\ OpRecord("out", TRUE, NoXtoArgs)
                /\ UNCHANGED <<further_acts, out1, produced, calls, down_acts>>
           ELSE /\ OpEnds("out", looped, NoXtoArgs, TRUE)
                /\ out1' = Updated(out1, sent)
                /\ down_acts' = (IF ConnIn(SCHED, called)
                                 THEN Drained(DownResults(down_acts,
                                                          current_time[1]))
                                 ELSE down_acts)
                /\ IF looped
                   THEN \* the exception of the nested call passes through
                        \* Signal.update and out: post-hooks are not run
                        /\ calls' = calls \o HookCalls(prehooks, "out", FALSE)
                                          \o ClientNotes(called)
                        /\ UNCHANGED further_acts
                        /\ dpc = "outside" => UNCHANGED produced
                   ELSE /\ calls' = calls \o RunWithHooks("out", ClientNotes(called))
                        /\ further_acts' = Collected(further_acts, new_events)
                        /\ produced' = (IF dpc = "body"
                                        THEN produced \o new_events
                                        ELSE produced)
    /\ UNCHANGED <<state, current_time, hooktabs>>
    /\ UNCHANGED <<seqvars, sigvars, cmp, extvars>>

\* given_states = current_states; given_states += [new_state] : one list
\* object, so current_states grows as well
GivenStates(current_states, new_state) ==
    IF new_state # "None" THEN Append(current_states, new_state)
    ELSE current_states

\* The names not checked against STATES.
XtoFails_unchecked(current_states, new_state) ==
    state \notin Elems(GivenStates(current_states, new_state))

\* the two checks of Device.xto : a message is set, then raised
XtoFails(current_states, new_state) ==
    LET given_states == GivenStates(current_states, new_state)
        checked_states == given_states
    IN  \/ \E i \in DOMAIN given_states : given_states[i] \notin StateSet
        \/ state \notin Elems(checked_states)

\* Device.xto(current_state_s, new_state) : a str argument is wrapped in a
\* list first, so it is a list of one name here
XtoCall(current_states, new_state) ==
    /\ n_ops < OpsLeft
    /\ LET raised == NotInHandler \/ XtoFails(current_states, new_state)
       IN  /\ OpRecord("xto", raised, XtoArgs(current_states, new_state))
           /\ IF raised \/ new_state = "None"
              THEN UNCHANGED state
              ELSE state' = new_state
           /\ (dpc = "body" /\ raised) \/ UNCHANGED produced
           /\ calls' = (IF raised THEN calls
                        ELSE calls \o RunWithHooks("xto", <<>>))
    /\ UNCHANGED <<current_time, further_acts, out1, down_acts, hooktabs>>
    /\ UNCHANGED <<seqvars, sigvars, cmp>>

\* xto given a str, or a list the caller does not keep
Xto(current_states, new_state) ==
    /\ XtoCall(current_states, new_state)
    /\ UNCHANGED extvars

\* The list a handler body made and keeps: what it held when made, what it
\* holds now, and the xto calls it was passed to
Held(list) ==
    [list |-> list, made |-> list, new_state |-> "None", n |-> 0,
     raised |-> FALSE]

\* A handler body makes a list of state names and keeps it
KeepList(list) ==
    /\ dpc = "body"
    /\ held.made = <<>>
    /\ held' = Held(list)
    /\ UNCHANGED <<attrs, ask, script>>
    /\ UNCHANGED <<seqvars, devvars, sigvars, cmp>>

\* The handler body passes the list it keeps to xto : given_states is the
\* caller's list object, and += extends it in place
XtoHeld(new_state) ==
    /\ dpc = "body"
    /\ held.made # <<>>
    /\ held.n < MaxOps
    /\ XtoCall(held.list, new_state)
    /\ held' = [held EXCEPT !.list = (IF NotInHandler THEN held.list
                                      ELSE GivenStates(held.list, new_state)),
                            !.new_state = new_state,
                            !.n = held.n + 1,
                            !.raised = last_op'.raised]
    /\ UNCHANGED <<attrs, ask, script>>

\* The events a handler body can return: fresh Event objects
RetEvent(i) == Event(EventTime_add(current_time[1], 0), "cb", "None", i)

ReturnValues ==
    {PyNone, PyList(<<>>), PyEvent(RetEvent(1)), PyList(<<RetEvent(1)>>),
     PyList(<<RetEvent(1), RetEvent(2)>>), PyTuple(<<RetEvent(1)>>)}

\* The handler body returns inner_results; wrapper_call finishes.
Return(inner_results) ==
    /\ dpc = "body"
    /\ LET results == Extended(further_acts, inner_results)
       IN  /\ outcome' = [kind |-> "returned", value |-> PyList(results),
                          raw |-> inner_results, nested |-> FALSE]
           /\ further_acts' = Drained(results)
    /\ current_time' = <<>>
    /\ dpc' = "outside"
    /\ handler' = "none"
    /\ n_ops' = 0
    /\ calls' = calls \o HookCalls(posthooks, handler, TRUE)
    /\ UNCHANGED <<state, out1, produced, last_op, down_acts, hooktabs>>
    /\ UNCHANGED <<seqvars, sigvars, cmp, extvars>>

\* The handler body raises an exception of its own.
Raise ==
    /\ dpc = "body"
    /\ Aborted
    /\ UNCHANGED <<state, current_time, further_acts, out1, last_op,
                   down_acts, calls, hooktabs>>
    /\ UNCHANGED <<seqvars, sigvars, cmp, extvars>>

CallHandler ==
    \E h \in InputNames \cup ActionNames, t \in DevTimes, v \in HandlerValues :
        Call(h, t, v)

CallAct == \E action_or_name \in ActArgs, t \in ActTimes : Act(action_or_name, t)

CallOut == \E v \in OutValues : Out(v)

\* current_state_s : one name, or a list of names
StateListArgs ==
    {<<a>> : a \in StateArgs} \cup {<<"idle", "changing">>, <<"changing", "nosuch">>}

CallXto ==
    \E cs \in StateListArgs, new \in StateArgs \cup {"None"} : Xto(cs, new)

HandlerReturns == dpc = "body" /\ \E r \in ReturnValues : Return(r)

DevNext ==
    \/ CallHandler
    \/ CallAct
    \/ CallOut
    \/ CallXto
    \/ HandlerReturns
    \/ Raise

CallKeepList == \E list \in StateListArgs : KeepList(list)

CallXtoHeld == \E new \in StateArgs \cup {"None"} : XtoHeld(new)

HeldNext ==
    \/ CallHandler
    \/ CallKeepList
    \/ CallXtoHeld
    \/ HandlerReturns

\* No signal call was made yet
NoSigOp ==
    [op |-> "none", n |-> 0, before |-> <<>>, handle |-> NoHandle,
     index |-> 0, traced |-> FALSE, was |-> SIG_START_DEFAULT,
     time |-> 0, value |-> SIG_START_DEFAULT]

\* Signal.__init__
SigInit ==
    /\ signal = [value |-> SIG_START_DEFAULT, previous_value |-> SIG_UNDEFINED]
    /\ connected_clients = <<>>
    /\ trace_connection = <<>>
    /\ handles = <<>>
    /\ notified = <<>>
    /\ sig_op = NoSigOp

\* TrialDevice.__init__ sets neither _time_change_complete nor _latest_value
NoAttrs == [set |-> FALSE, time_change_complete |-> 0, latest_value |-> "None"]

\* interact was not called yet
NoAsk == [line |-> <<>>, did |-> "none", n |-> 0, arg |-> 0, active |-> FALSE]

\* No list is kept yet
NoHeld == Held(<<>>)

ExtInit == attrs = NoAttrs /\ ask = NoAsk /\ held = NoHeld /\ script = <<>>

Init == SeqInit /\ DevInit /\ SigInit /\ CmpInit /\ ExtInit

Next ==
    \/ AddEvents
    \/ Run
    \/ Step
    \/ Until
    \/ Awhile
    \/ RunIteration

Spec == Init /\ [][Next]_vars

DevSpec == Init /\ [][DevNext]_vars

HeldSpec == Init /\ [][HeldNext]_vars



FairSpec == Init /\ [][Next]_vars /\ WF_vars(RunIteration)

\* The Sequencer with events of any priority: positive, zero or negative
AnyEventLists(n) == [1..n -> ComparedTimes]

AddAnyPriority == \E n \in 1..Room : \E ets \in AnyEventLists(n) : Add(ets)

ReturnAnyPriority == \E n \in 0..Room : \E ets \in AnyEventLists(n) : RunLoop(ets)

PrioNext ==
    \/ AddAnyPriority
    \/ Until
    \/ Run
    \/ ReturnAnyPriority

PrioSpec == Init /\ [][PrioNext]_vars

\* The Sequencer with callbacks that call Sequencer.add
ReturnAndAdd ==
    \E n \in 0..Room : \E k \in 0..(Room - n) :
        \E ets \in NewEventLists(n), added \in NewEventLists(k) :
            RunBody(ets, added)

ReaddNext ==
    \/ AddEvents
    \/ Run
    \/ Step
    \/ ReturnAndAdd

ReaddSpec == Init /\ [][ReaddNext]_vars

(***************************************************************************)
(* Sequencer.interact : a line is a sequence of characters. The lines the  *)
(* model reads have decimals of a zero fraction, times being whole here.   *)
(***************************************************************************)
MaxAsks == 2

Digits == {"0", "1", "2"}

DigitValue(c) == IF c = "0" THEN 0 ELSE IF c = "1" THEN 1 ELSE 2

\* str.lower()
RECURSIVE Lower(_)
Lower(line) ==
    IF line = <<>> THEN <<>>
    ELSE <<IF Head(line) = "Q" THEN "q" ELSE Head(line)>> \o Lower(Tail(line))

\* str.strip()
RECURSIVE Strip(_)
Strip(line) ==
    IF line = <<>> THEN <<>>
    ELSE IF Head(line) = " " THEN Strip(Tail(line))
    ELSE IF line[Len(line)] = " " THEN Strip(SubSeq(line, 1, Len(line) - 1))
    ELSE line

AllDigits(text) == text # <<>> /\ \A i \in DOMAIN text : text[i] \in Digits

\* The number a str of digits writes
RECURSIVE Number(_)
Number(text) ==
    IF text = <<>> THEN 0
    ELSE 10 * Number(SubSeq(text, 1, Len(text) - 1))
             + DigitValue(text[Len(text)])

\* Where the first "." of a str is, or 0
FirstDot(text) ==
    IF \E i \in DOMAIN text : text[i] = "."
    THEN CHOOSE i \in DOMAIN text :
             text[i] = "." /\ \A j \in 1..(i - 1) : text[j] # "."
    ELSE 0

\* float(text), for a text without exponent : an optional sign, digits
\* with one "." among them; ok is FALSE for ValueError
Float(text) ==
    LET negative == text # <<>> /\ Head(text) = "-"
        body == IF negative THEN Tail(text) ELSE text
        dot == FirstDot(body)
        whole == SubSeq(body, 1, dot - 1)
        fraction == SubSeq(body, dot + 1, Len(body))
    IN  IF /\ dot > 0
           /\ whole \o fraction # <<>>
           /\ \A i \in DOMAIN whole : whole[i] \in Digits
           /\ \A i \in DOMAIN fraction : fraction[i] \in Digits
        THEN [ok |-> TRUE, negative |-> negative, whole |-> Number(whole)]
        ELSE [ok |-> FALSE, negative |-> FALSE, whole |-> 0]

\* The command interact makes of a line: what it does, with what argument
Command(line) ==
    LET stripped == Strip(Lower(line))
        text == IF stripped = <<>> THEN <<"1">> ELSE stripped
    IN  IF text[1] = "q" THEN [did |-> "quit", arg |-> 0]
        ELSE IF text[1] = "*" THEN [did |-> "run", arg |-> 0]
        ELSE IF text[1] \in Digits
        THEN IF \E i \in DOMAIN text : text[i] = "."
             THEN IF ~Float(text).ok THEN [did |-> "error", arg |-> 0]
                  ELSE IF Float(text).negative
                       THEN [did |-> "until", arg |-> Float(text).whole]
                       ELSE [did |-> "period", arg |-> Float(text).whole]
             ELSE IF AllDigits(text) THEN [did |-> "step", arg |-> Number(text)]
                  ELSE [did |-> "error", arg |-> 0]
        ELSE [did |-> "help", arg |-> 0]

\* interact has returned, or was left by an exception: by q, by a
\* ValueError of float or int, by the error of a run, or the queue is empty
InteractOver ==
    /\ ask.n > 0
    /\ pc = "idle"
    /\ \/ ask.did \in {"quit", "error"}
       \/ events = <<>>
       \/ halt = "backwards"

\* One turn of interact's loop, up to the first test of run's loop if a
\* run is made
ReadLine(line) ==
    /\ pc = "idle"
    /\ ~InteractOver
    /\ ask.n < MaxAsks
    /\ LET command == Command(line)
       IN  /\ ask' = [line |-> line, did |-> command.did, n |-> ask.n + 1,
                      arg |-> command.arg, active |-> TRUE]
           /\ IF command.did = "run" THEN RunCall("run", -1, <<>>, <<>>)
              ELSE IF command.did = "step"
                   THEN RunCall("step", command.arg, <<>>, <<>>)
              ELSE IF command.did = "period"
                   THEN RunCall("awhile", -1, <<command.arg>>, <<>>)
              ELSE IF command.did = "until"
                   THEN RunCall("until", -1, <<>>, <<command.arg>>)
              ELSE UNCHANGED seqvars
    /\ UNCHANGED <<attrs, held, script>>
    /\ UNCHANGED <<devvars, sigvars, cmp>>

\* The lines typed
Lines ==
    {<<>>, <<"q">>, <<"Q">>, <<"*">>, <<"1">>, <<"2">>, <<"1", ".", "0">>,
     <<"1", ".">>, <<"-", "1", ".", "0">>, <<"-", "1">>, <<"x">>, <<"?">>,
     <<"1", "x">>, <<"1", ".", "x">>, <<".", "1">>, <<" ", "1", " ">>}

CallReadLine == \E line \in Lines : ReadLine(line)

\* The queue is filled before interact is called
SeedQueue == ask.n = 0 /\ AddEvents

InteractNext ==
    \/ SeedQueue
    \/ CallReadLine
    \/ RunIteration

InteractSpec == Init /\ [][InteractNext]_vars

(***************************************************************************)
(* TrialDevice run by a Sequencer : every seeded event calls in1, every    *)
(* event a handler returns calls act_newdata. out1 has no connection and   *)
(* no hook is installed. Times are counted in units of 0.5.                *)
(***************************************************************************)
\* TIMINGS = {"t_delay": 1.5}
t_delay == 3

\* The times of the seeded events
SeedTimes == {EventTime(t, 0) : t \in 0..(MaxTime + t_delay)}

\* The value the i-th seeded event carries
SeedValue(i) == <<"1", "2", "3", "4", "5", "6">>[i]

\* The output made whenever act_newdata is called.
Completes_always(t, complete) == TRUE

\* if time.time >= self._time_change_complete
Completes(t, complete) == t.time >= complete

\* The body of in1(time, value): what it leaves, and whether it raises
In1(t, value) ==
    LET out_after == IF state = "idle" THEN Updated(out1, SIG_UNDEFINED)
                     ELSE out1
        fails == XtoFails(<<"idle">>, "changing")
        complete == t.time + t_delay
        event == Event(EventTime(complete, 0),
                       ResolveAction(StrArg("newdata")), "None", "None")
    IN  [raised |-> fails,
         state |-> IF fails THEN state ELSE "changing",
         out1 |-> out_after,
         attrs |-> IF fails THEN attrs
                   ELSE [set |-> TRUE, time_change_complete |-> complete,
                         latest_value |-> value],
         further_acts |-> IF fails THEN further_acts
                          ELSE Scheduled(further_acts, event)]

\* The body of act_newdata(time)
ActNewdata(t) ==
    LET fails == XtoFails(<<"changing">>, "None") \/ ~attrs.set
        due == ~fails /\ Completes(t, attrs.time_change_complete)
        fails_back == due /\ XtoFails(<<"changing">>, "idle")
    IN  [raised |-> fails \/ fails_back,
         state |-> IF due /\ ~fails_back THEN "idle" ELSE state,
         out1 |-> IF due THEN Updated(out1, attrs.latest_value) ELSE out1,
         attrs |-> attrs,
         further_acts |-> further_acts]

\* wrapper_call around a body: the guard, the body, the results
Wrapped(t, value, body) ==
    IF ~GuardFree
    THEN [raised |-> TRUE, state |-> state, out1 |-> out1, attrs |-> attrs,
          current_time |-> current_time, further_acts |-> further_acts,
          results |-> <<>>]
    ELSE IF ~ValueSupported(value)
    THEN [raised |-> TRUE, state |-> state, out1 |-> out1, attrs |-> attrs,
          current_time |-> <<t>>, further_acts |-> further_acts,
          results |-> <<>>]
    ELSE IF body.raised
    THEN [raised |-> TRUE, state |-> body.state, out1 |-> body.out1,
          attrs |-> body.attrs, current_time |-> <<t>>,
          further_acts |-> body.further_acts, results |-> <<>>]
    ELSE [raised |-> FALSE, state |-> body.state, out1 |-> body.out1,
          attrs |-> body.attrs, current_time |-> <<>>,
          further_acts |-> Drained(Extended(body.further_acts, PyNone)),
          results |-> Extended(body.further_acts, PyNone)]

\* event.action() for the events of the scenario
TrialAction(event) ==
    IF event <= n_added
    THEN Wrapped(evs[event].time, SeedValue(event),
                 In1(evs[event].time, SeedValue(event)))
    ELSE Wrapped(evs[event].time, "None", ActNewdata(evs[event].time))

TimesOf(s) == [i \in 1..Len(s) |-> s[i].time]

\* One pass of run's loop in the scenario. An exception of the callback
\* leaves run at once: self._events is still the sorted list.
TrialPass ==
    /\ pc = "running"
    /\ LET sorted == Sort(events, evs)
           event == Head(sorted)
           next_time == evs[event].time
           called == /\ ~BackwardsStep(next_time, time)
                     /\ ~StopReached(next_time, stop)
                     /\ ~StepsExhausted(halt_steps)
           r == TrialAction(event)
       IN  IF ~called
           THEN /\ RunPass(<<>>, <<>>)
                /\ UNCHANGED <<state, out1, attrs, current_time, further_acts,
                               outcome>>
           ELSE /\ IF r.raised
                   THEN /\ time' = next_time
                        /\ dispatched' = Append(dispatched, event)
                        /\ run_count' = run_count + 1
                        /\ events' = LeftPending(sorted)
                        /\ RunEnds("raised")
                        /\ UNCHANGED <<evs, n_added, run_mode>>
                   ELSE RunPass(TimesOf(r.results), <<>>)
                /\ state' = r.state
                /\ out1' = r.out1
                /\ attrs' = r.attrs
                /\ current_time' = r.current_time
                /\ further_acts' = r.further_acts
                /\ outcome' = [kind |-> IF r.raised THEN "raised" ELSE "returned",
                               value |-> PyList(r.results), raw |-> PyNone,
                               nested |-> FALSE]
    /\ UNCHANGED <<dpc, handler, n_ops, produced, last_op, down_acts, calls,
                   hooktabs>>
    /\ UNCHANGED <<sigvars, cmp, ask, held, script>>

\* A new TrialDevice and a new Sequencer to which in1 events were added
TrialInit ==
    /\ \E n \in 1..MaxBatch : \E ets \in [1..n -> SeedTimes] :
          /\ evs = Registered(<<>>, ets)
          /\ events = Ids(0, n)
          /\ n_added = n
    /\ time = EventTime(0, 0)
    /\ pc = "idle"
    /\ halt_steps = -1
    /\ stop = <<>>
    /\ run_steps = -1
    /\ halt = "none"
    /\ run_mode = "none"
    /\ dispatched = <<>>
    /\ run_count = 0
    /\ clients = <<>>
    /\ DevStart /\ SigInit /\ CmpInit /\ ExtInit

\* seq.run(), once
TrialRun == run_mode = "none" /\ Run

TrialNext ==
    \/ TrialRun
    \/ TrialPass

TrialSpec == TrialInit /\ [][TrialNext]_vars

(***************************************************************************)
(* The Sequencer run in one go or in pieces, over a queue of seeded events *)
(* whose callbacks return what a script says; the events callbacks return  *)
(* have callbacks that return nothing.                                     *)
(***************************************************************************)
\* Lists of at most n new events
EventListsUpTo(n) == UNION {NewEventLists(k) : k \in 0..n}

RECURSIVE Total(_)
Total(lists) == IF lists = <<>> THEN 0 ELSE Len(Head(lists)) + Total(Tail(lists))

\* The scripts for n seeded events that keep to MaxEvents events in all
Scripts(n) ==
    {s \in [1..n -> EventListsUpTo(IF MaxEvents - n < MaxBatch
                                   THEN MaxEvents - n ELSE MaxBatch)] :
        Total(s) <= MaxEvents - n}

\* event.action() : what the callback of an event returns
Returned(event) == IF event \in DOMAIN script THEN script[event] ELSE <<>>

\* A new Sequencer to which the seeded events were added
ScriptInit ==
    /\ \E n \in 1..MaxEvents : \E ets \in NewEventLists(n) :
          /\ evs = Registered(<<>>, ets)
          /\ events = Ids(0, n)
          /\ n_added = n
          /\ script \in Scripts(n)
    /\ time = EventTime(0, 0)
    /\ pc = "idle"
    /\ halt_steps = -1
    /\ stop = <<>>
    /\ run_steps = -1
    /\ halt = "none"
    /\ run_mode = "none"
    /\ dispatched = <<>>
    /\ run_count = 0
    /\ DevInit /\ SigInit /\ CmpInit
    /\ attrs = NoAttrs /\ ask = NoAsk /\ held = NoHeld

\* One pass of run's loop : the callback called returns what its script says
ScriptedPass ==
    /\ pc = "running"
    /\ \E ets \in {<<>>, Returned(Head(Sort(events, evs)))} :
          /\ RunLoop(ets)
          /\ Len(dispatched') > Len(dispatched) =>
                ets = Returned(Head(Sort(events, evs)))

ScriptNext ==
    \/ Run
    \/ Step
    \/ Until
    \/ Awhile
    \/ ScriptedPass

ScriptSpec == ScriptInit /\ [][ScriptNext]_vars

\* Sequencer.run() on the queue q at time now, in one go: the events whose
\* action() it calls, in call order
RECURSIVE Drain(_, _, _, _)
Drain(q, now, reg, done) ==
    IF q = <<>> THEN done
    ELSE LET sorted == Sort(q, reg)
             event == Head(sorted)
             next_time == reg[event].time
             new_ets == Returned(event)
         IN  IF BackwardsStep(next_time, now) THEN done
             ELSE Drain(Merged(Tail(sorted), Ids(Len(reg), Len(new_ets))),
                        next_time, Registered(reg, new_ets),
                        Append(done, event))

\* What one unbounded run() of the new Sequencer dispatches
OneRun ==
    Drain(Ids(0, Len(script)), EventTime(0, 0), SubSeq(evs, 1, Len(script)),
          <<>>)

(***************************************************************************)
(* Device : hook, unhook, trace, untrace                                   *)
(***************************************************************************)
OutputNames == {"out1"}
PseudoNames == {"act", "out", "xto"}

\* all_eventcall_names() : ["act", "out", "xto"] + inputs + actions
AllEventcallNames == <<"act", "out", "xto", "in1", "act_newdata", "newdata">>

\* The three hook tables and the connection list of out1, as one value
Tables ==
    [pre |-> prehooks, post |-> posthooks, outh |-> output_hooks,
     clients |-> clients]

TablesBecome(T) ==
    /\ prehooks' = T.pre
    /\ posthooks' = T.post
    /\ output_hooks' = T.outh
    /\ clients' = T.clients

\* hookset.setdefault(name, []) followed by a change of that list
Put(hookset, name, hooklist) ==
    [n \in DOMAIN hookset \cup {name} |->
        IF n = name THEN hooklist ELSE hookset[n]]

\* the dict after hookset.pop(name)
Popped(hookset, name) == [n \in DOMAIN hookset \ {name} |-> hookset[n]]

\* connected_clients[index:index] = [connection], for index 0 and -1
Inserted(conns, c, index) ==
    IF index = 0 \/ conns = <<>> THEN <<c>> \o conns
    ELSE SubSeq(conns, 1, Len(conns) - 1) \o <<c>> \o <<conns[Len(conns)]>>

\* Signal.connect : an equal connection is not connected a second time
Connected(conns, c, index) ==
    IF ConnIn(c, conns) THEN conns ELSE Inserted(conns, c, index)

\* The list cut off at the first equal connection.
RECURSIVE Disconnected_truncated(_, _)
Disconnected_truncated(conns, c) ==
    IF conns = <<>> \/ SameConn(Head(conns), c) THEN <<>>
    ELSE <<Head(conns)>> \o Disconnected_truncated(Tail(conns), c)

\* Signal.disconnect : every equal connection goes
Disconnected(conns, c) == SelectSeq(conns, LAMBDA x : ~SameConn(x, c))

\* hooklist.remove(hook) : the first equal element goes
RECURSIVE Removed(_, _)
Removed(hooklist, hook) ==
    IF hooklist = <<>> THEN <<>>
    ELSE IF SameConn(Head(hooklist), hook) THEN Tail(hooklist)
    ELSE <<Head(hooklist)>> \o Removed(Tail(hooklist), hook)

\* {"call_context": None, "hook_context": context} of an output hook
HookContext(context) == "hook_context:" \o context

\* the context dict trace builds : it names the component
TraceContext(name) == "trace:" \o name

\* if name in ["act", "update", "out"]: call_after = False
FiledAfter(name, call_after) ==
    call_after /\ name \notin {"act", "update", "out"}

\* Device.hook(name, call, context, call_after) on tables T; id is the
\* identity of the SignalConnection it creates
Hooked(T, id, name, call, context, call_after) ==
    IF name \in OutputNames
    THEN LET new_hook == SignalConnection(id, call, HookContext(context), call_after)
             index == IF call_after THEN -1 ELSE 0
         IN  [raised |-> FALSE, hook |-> new_hook,
              tables |-> [T EXCEPT
                  !.clients = Connected(T.clients, new_hook, index),
                  !.outh = Put(T.outh, name, Append(Get(T.outh, name), new_hook))]]
    ELSE IF name \notin Elems(AllEventcallNames)
    THEN [raised |-> TRUE, hook |-> NoHandle, tables |-> T]
    ELSE LET new_hook == SignalConnection(id, call, context, call_after)
         IN  IF FiledAfter(name, call_after)
             THEN [raised |-> FALSE, hook |-> new_hook,
                   tables |-> [T EXCEPT !.post =
                       Put(T.post, name, Append(Get(T.post, name), new_hook))]]
             ELSE [raised |-> FALSE, hook |-> new_hook,
                   tables |-> [T EXCEPT !.pre =
                       Put(T.pre, name, Append(Get(T.pre, name), new_hook))]]

\* unhook(name) : hookset.pop(name) on _prehooks, _posthooks and
\* _output_hooks in turn; the first table without the key raises KeyError
UnhookedName(T, name) ==
    IF name \notin DOMAIN T.pre THEN [raised |-> TRUE, tables |-> T]
    ELSE LET T1 == [T EXCEPT !.pre = Popped(T.pre, name)]
         IN  IF name \notin DOMAIN T.post THEN [raised |-> TRUE, tables |-> T1]
             ELSE LET T2 == [T1 EXCEPT !.post = Popped(T.post, name)]
                  IN  IF name \notin DOMAIN T.outh
                      THEN [raised |-> TRUE, tables |-> T2]
                      ELSE LET hooklist == T.outh[name]
                               RECURSIVE Cut(_, _)
                               Cut(conns, i) ==
                                   IF i > Len(hooklist) \/ name \notin OutputNames
                                   THEN conns
                                   ELSE Cut(Disconnected(conns, hooklist[i]), i + 1)
                           IN  [raised |-> FALSE,
                                tables |-> [T2 EXCEPT
                                    !.outh = Popped(T.outh, name),
                                    !.clients = Cut(T.clients, 1)]]

\* unhook(hook) : in every list of every table that holds an equal hook,
\* the first equal one is removed; for a list of _output_hooks the signal
\* is disconnected from every equal connection as well
Unhooked(T, hook) ==
    [pre |-> [n \in DOMAIN T.pre |-> Removed(T.pre[n], hook)],
     post |-> [n \in DOMAIN T.post |-> Removed(T.post[n], hook)],
     outh |-> [n \in DOMAIN T.outh |-> Removed(T.outh[n], hook)],
     clients |-> IF \E n \in DOMAIN T.outh \cap OutputNames : ConnIn(hook, T.outh[n])
                 THEN Disconnected(T.clients, hook)
                 ELSE T.clients]

\* trace(name, after), name not "*" : the hook call it ends in
Traced(T, id, name, after) ==
    IF name \in InputNames \cup ActionNames \cup OutputNames \cup PseudoNames
    THEN Hooked(T, id, name, "trace", TraceContext(name), after)
    ELSE [raised |-> TRUE, hook |-> NoHandle, tables |-> T]

\* trace("*") : for a_name in self.all_eventcall_names(): self.trace(a_name)
RECURSIVE TracedEach(_, _, _)
TracedEach(T, id, names) ==
    IF names = <<>> THEN T
    ELSE TracedEach(Traced(T, id, Head(names), FALSE).tables, id + 1, Tail(names))

\* [hook for hook in hooklist if hook.call == self._trace_callback]
TraceHooks(hooklist) == SelectSeq(hooklist, LAMBDA x : x.call = "trace")

\* for tracehook in tracehooks: self.unhook(tracehook)
RECURSIVE UnhookedEach(_, _)
UnhookedEach(T, tracehooks) ==
    IF tracehooks = <<>> THEN T
    ELSE UnhookedEach(Unhooked(T, Head(tracehooks)), Tail(tracehooks))

\* untrace for one name : _prehooks, _posthooks, _output_hooks in turn
UntracedName(T, name) ==
    LET T1 == UnhookedEach(T, TraceHooks(Get(T.pre, name)))
        T2 == UnhookedEach(T1, TraceHooks(Get(T1.post, name)))
    IN  UnhookedEach(T2, TraceHooks(Get(T2.outh, name)))

\* untrace(name) : names is all_eventcall_names() for "*", [name] otherwise
RECURSIVE Untraced(_, _)
Untraced(T, names) ==
    IF names = <<>> THEN T
    ELSE Untraced(UntracedName(T, Head(names)), Tail(names))

\* What is noted of a management call: its kind and name argument, the
\* hook given or returned, whether it raised, the tables before it, and how
\* many such calls were made. For untrace("*") made right after trace("*"),
\* paired is set and before is the tables before that trace("*").
Managed(op, name, handle, raised, before) ==
    mgmt' = [op |-> op, name |-> name, handle |-> handle, raised |-> raised,
             before |-> before, n |-> mgmt.n + 1,
             paired |-> (op = "untrace" /\ name = "*"
                           /\ mgmt.op = "trace" /\ mgmt.name = "*")]

\* Hooks are managed while the device is set up, before the simulation
\* invokes its first handler
MayManage ==
    /\ dpc = "outside"
    /\ outcome.kind = "none"
    /\ last_op.op = "none"
    /\ mgmt.n < MaxMgmt

HookDevUnchanged ==
    /\ UNCHANGED <<state, current_time, further_acts, out1, dpc, handler,
                   n_ops, produced, outcome, last_op, down_acts, calls>>
    /\ UNCHANGED <<seqvars, sigvars, cmp, extvars>>

Hook(name, call, context, call_after) ==
    /\ MayManage
    /\ LET r == Hooked(Tables, n_conns + 1, name, call, context, call_after)
       IN  /\ TablesBecome(r.tables)
           /\ n_conns' = (IF r.raised THEN n_conns ELSE n_conns + 1)
           /\ Managed("hook", name, r.hook, r.raised, Tables)
    /\ HookDevUnchanged

UnhookName(name) ==
    /\ MayManage
    /\ LET r == UnhookedName(Tables, name)
       IN  /\ TablesBecome(r.tables)
           /\ Managed("unhook_name", name, NoHandle, r.raised, Tables)
    /\ UNCHANGED n_conns
    /\ HookDevUnchanged

UnhookHandle(hook) ==
    /\ MayManage
    /\ TablesBecome(Unhooked(Tables, hook))
    /\ Managed("unhook_handle", "None", hook, FALSE, Tables)
    /\ UNCHANGED n_conns
    /\ HookDevUnchanged

Trace(name, after) ==
    /\ MayManage
    /\ IF name = "*"
       THEN /\ TablesBecome(TracedEach(Tables, n_conns + 1, AllEventcallNames))
            /\ n_conns' = n_conns + Len(AllEventcallNames)
            /\ Managed("trace", name, NoHandle, FALSE, Tables)
       ELSE LET r == Traced(Tables, n_conns + 1, name, after)
            IN  /\ TablesBecome(r.tables)
                /\ n_conns' = (IF r.raised THEN n_conns ELSE n_conns + 1)
                /\ Managed("trace", name, r.hook, r.raised, Tables)
    /\ HookDevUnchanged

Untrace(name) ==
    /\ MayManage
    /\ TablesBecome(Untraced(Tables, IF name = "*" THEN AllEventcallNames
                                     ELSE <<name>>))
    /\ Managed("untrace", name, NoHandle, FALSE,
               IF name = "*" /\ mgmt.op = "trace" /\ mgmt.name = "*"
               THEN mgmt.before ELSE Tables)
    /\ UNCHANGED n_conns
    /\ HookDevUnchanged

\* The arguments the model's callers pass
HookNames == {"in1", "act", "out", "xto", "out1"}
HookContexts == {"None"}
TraceNames == {"in1", "out1", "*"}

\* The hooks there are handles of
Handles ==
    UNION {Elems(prehooks[n]) : n \in DOMAIN prehooks}
      \cup UNION {Elems(posthooks[n]) : n \in DOMAIN posthooks}
      \cup UNION {Elems(output_hooks[n]) : n \in DOMAIN output_hooks}

CallHook ==
    \E name \in HookNames, context \in HookContexts, call_after \in BOOLEAN :
        Hook(name, "cb", context, call_after)

CallUnhookName == \E name \in HookNames : UnhookName(name)

CallUnhookHandle == \E hook \in Handles : UnhookHandle(hook)

CallTrace == \E name \in TraceNames, after \in BOOLEAN : Trace(name, after)

CallUntrace == \E name \in TraceNames : Untrace(name)

\* The device run with hooks installed: the first invocation of the input,
\* after at most MaxSetup management calls, and a body that may call act,
\* out and xto
HookedCall ==
    /\ dpc = "outside"
    /\ outcome.kind = "none"
    /\ mgmt.n <= MaxSetup
    /\ Call("in1", 0, "None")

HookedAct == dpc = "body" /\ Act(StrArg("newdata"), MaxTime)

HookedOut == dpc = "body" /\ Out("1")

HookedXto == dpc = "body" /\ Xto(<<"idle">>, "changing")

HookedReturn == dpc = "body" /\ Return(PyNone)

HookNext ==
    \/ CallHook
    \/ CallUnhookName
    \/ CallUnhookHandle
    \/ CallTrace
    \/ CallUntrace
    \/ HookedCall
    \/ HookedAct
    \/ HookedOut
    \/ HookedXto
    \/ HookedReturn

\* out1 is connected to a sink and to the input of a downstream device
HookInit == Init /\ clients = <<SINK, SCHED>>

HookSpec == HookInit /\ [][HookNext]_vars


(***************************************************************************)
(* Signal : update, connect, disconnect, trace, untrace   (signal.py)      *)
(***************************************************************************)
\* Callables that only record what they are called with
Recorders == {"A", "B", "C"}

\* Callables that, when called, change the connection list of the signal
\* that calls them: "add0" connects X at index 0, "add" connects X with
\* the default index, "drop" disconnects the connection it is called by
Reentrants == {"add0", "add", "drop"}

\* The contexts connections are made with
SigContexts == {"None", "k"}

\* the index argument of connect : the default, and 0
SigIndexes == {-1, 0}

\* The values updates are made with
SigValues == {"1", "2"}

\* What is noted of a signal call: its kind and arguments, the connection
\* list, the value and the trace slot before it, and how many were made
SigNoted(op, handle, index, t, value) ==
    sig_op' = [op |-> op, n |-> sig_op.n + 1, before |-> connected_clients,
               handle |-> handle, index |-> index,
               traced |-> (trace_connection # <<>>), was |-> signal.value,
               time |-> t, value |-> value]

\* connection.call(time, value, connection.call_context), as noted by the
\* callable, with what the signal s showed when it was called
CallNote(connection, t, value, s) ==
    [id |-> connection.id, call |-> connection.call,
     call_context |-> connection.call_context, time |-> t, value |-> value,
     shown |-> s.value, shown_previous |-> s.previous_value]

\* What the callable of the connection at conns[i] does to the list
AfterCall(conns, i, id) ==
    IF conns[i].call = "add0"
    THEN Connected(conns, SignalConnection(id, "X", "None", FALSE), 0)
    ELSE IF conns[i].call = "add"
    THEN Connected(conns, SignalConnection(id, "X", "None", FALSE), -1)
    ELSE IF conns[i].call = "drop" THEN Disconnected(conns, conns[i])
    ELSE conns

\* for connection in self.connected_clients : the list iterator holds an
\* index into the list itself, and stops when the index reaches its length
RECURSIVE NotifyFrom(_, _, _, _, _, _)
NotifyFrom(conns, i, log, t, value, s) ==
    IF i > Len(conns) THEN [conns |-> conns, log |-> log]
    ELSE NotifyFrom(AfterCall(conns, i, 100 + i), i + 1,
                    Append(log, CallNote(conns[i], t, value, s)), t, value, s)

\* The connections notified last to first.
NotifyAll_backwards(conns, t, value, s) ==
    NotifyFrom([i \in DOMAIN conns |-> conns[Len(conns) + 1 - i]], 1, <<>>,
               t, value, s)

\* the loop of Signal.update, from the first connection
NotifyAll(conns, t, value, s) == NotifyFrom(conns, 1, <<>>, t, value, s)

SigFrame == UNCHANGED <<seqvars, devvars, cmp, extvars>>

SigMayCall == sig_op.n < MaxSigOps

\* Signal.update(time, value)
SigUpdate(t, value) ==
    /\ SigMayCall
    /\ signal' = Updated(signal, value)
    /\ LET r == NotifyAll(connected_clients, t, value, signal')
       IN  /\ connected_clients' = r.conns
           /\ notified' = r.log
    /\ SigNoted("update", NoHandle, 0, t, value)
    /\ UNCHANGED <<trace_connection, handles>>
    /\ SigFrame

\* Signal.connect(call, call_context, index)
SigConnect(call, call_context, index) ==
    /\ SigMayCall
    /\ LET connection == SignalConnection(Len(handles) + 1, call, call_context, FALSE)
       IN  /\ connected_clients' = Connected(connected_clients, connection, index)
           /\ handles' = Append(handles, connection)
           /\ SigNoted("connect", connection, index, 0, signal.value)
    /\ UNCHANGED <<signal, trace_connection, notified>>
    /\ SigFrame

\* Signal.disconnect(connection)
SigDisconnect(connection) ==
    /\ SigMayCall
    /\ connected_clients' = Disconnected(connected_clients, connection)
    /\ SigNoted("disconnect", connection, 0, 0, signal.value)
    /\ UNCHANGED <<signal, trace_connection, handles, notified>>
    /\ SigFrame

\* index=0 : "always insert trace at **start** of connections"
TraceIndex == 0

\* The connection Signal.trace makes: _call_trace, with the signal as context
TraceConnection == SignalConnection(0, "_call_trace", "self", FALSE)

\* The trace connection connected with the default index.
TracedClients_default(conns) == Connected(conns, TraceConnection, -1)

\* self.connect(self._call_trace, call_context=self, index=0)
TracedClients(conns) == Connected(conns, TraceConnection, TraceIndex)

\* Signal.trace()
SigTrace ==
    /\ SigMayCall
    /\ IF trace_connection = <<>>
       THEN /\ connected_clients' = TracedClients(connected_clients)
            /\ trace_connection' = <<TraceConnection>>
       ELSE UNCHANGED <<connected_clients, trace_connection>>
    /\ SigNoted("trace", NoHandle, 0, 0, signal.value)
    /\ UNCHANGED <<signal, handles, notified>>
    /\ SigFrame

\* The trace connection left connected.
Untraced_kept(conns, slot) == conns

\* if trace is not None: self.disconnect(trace)
Untraced_clients(conns, slot) ==
    IF slot # <<>> THEN Disconnected(conns, slot[1]) ELSE conns

\* Signal.untrace()
SigUntrace ==
    /\ SigMayCall
    /\ connected_clients' = Untraced_clients(connected_clients, trace_connection)
    /\ trace_connection' = <<>>
    /\ SigNoted("untrace", NoHandle, 0, 0, signal.value)
    /\ UNCHANGED <<signal, handles, notified>>
    /\ SigFrame

CallUpdate == \E t \in Times, value \in SigValues : SigUpdate(t, value)

CallConnect ==
    \E call \in Recorders, call_context \in SigContexts, index \in SigIndexes :
        SigConnect(call, call_context, index)

\* connect of a callable that changes the list when it is notified
CallConnectReentrant ==
    \E call \in Reentrants, index \in SigIndexes : SigConnect(call, "None", index)

CallDisconnect == \E i \in DOMAIN handles : SigDisconnect(handles[i])

\* A signal driven by updates, with connections whose callables only record
SigNext ==
    \/ CallUpdate
    \/ CallConnect
    \/ CallDisconnect
    \/ SigTrace
    \/ SigUntrace

SigSpec == Init /\ [][SigNext]_vars

\* A signal with connections whose callables connect and disconnect while
\* the signal notifies them
ReentNext ==
    \/ CallUpdate
    \/ CallConnect
    \/ CallConnectReentrant
    \/ CallDisconnect

ReentSpec == Init /\ [][ReentNext]_vars

(***************************************************************************)
(* EventTime comparisons                                                   *)
(***************************************************************************)
\* a < b, b < a, a == b, b < c and a < c are evaluated
Compare ==
    /\ ~cmp.done
    /\ cmp' = [cmp EXCEPT !.done = TRUE,
                          !.lt_ab = EventTime_lt(cmp.a, cmp.b),
                          !.lt_ba = EventTime_lt(cmp.b, cmp.a),
                          !.eq_ab = EventTime_eq(cmp.a, cmp.b),
                          !.lt_bc = EventTime_lt(cmp.b, cmp.c),
                          !.lt_ac = EventTime_lt(cmp.a, cmp.c)]
    /\ UNCHANGED <<seqvars, devvars, sigvars, extvars>>

TimeInit ==
    /\ SeqInit /\ DevInit /\ SigInit /\ ExtInit
    /\ cmp \in {Operands(a, b, c) : a \in ComparedTimes, b \in ComparedTimes,
                                    c \in ComparedTimes}

TimeNext == Compare

TimeSpec == TimeInit /\ [][TimeNext]_vars

(***************************************************************************)
(* EventValue comparisons. A value is a raw int, float or str, or an       *)
(* EventValue holding one; a raw value is written as Python prints it,     *)
(* with the number it equals (0 for a str).                                *)
(***************************************************************************)
Raw(type, v, num) == [type |-> type, v |-> v, num |-> num]

RawValues ==
    {Raw("int", "1", 1), Raw("int", "2", 2), Raw("float", "1.0", 1),
     Raw("str", "'1'", 0), Raw("str", "'x'", 0)}

\* EventValue(value) : an EventValue is copied, a raw value is held
EventValue(value) ==
    IF value.type = "EventValue" THEN value
    ELSE [type |-> "EventValue", v |-> value]

ComparedValues == RawValues \cup {EventValue(r) : r \in RawValues}

ComparisonOps == {"<", "<=", ">", ">=", "==", "!="}
OrderingOps == {"<", "<=", ">", ">="}

\* == of raw values : numbers by what they equal, a str only with a str
RawEq(a, b) ==
    IF a.type = "str" \/ b.type = "str" THEN a.type = b.type /\ a.v = b.v
    ELSE a.num = b.num

\* the order of the strs used
StrLess(s, t) == s = "'1'" /\ t = "'x'"

RawLess(a, b) == IF a.type = "str" THEN StrLess(a.v, b.v) ELSE a.num < b.num

\* EventValue given the ordering methods as well.
DefinesOrder_all(type) == TRUE

\* Whether a type defines __lt__, __le__, __gt__, __ge__ : int, float and
\* str do, EventValue defines __eq__ alone
DefinesOrder(type) == type # "EventValue"

\* The raw value compared: what an EventValue holds
Held_value(x) == IF x.type = "EventValue" THEN x.v ELSE x

NotImplemented == [implemented |-> FALSE, result |-> FALSE]
Result(r) == [implemented |-> TRUE, result |-> r]

\* type(a).__op__(a, b) for an ordering op : NotImplemented, or the result
OrderMethod(a, op, b) ==
    LET x == Held_value(a)
        y == Held_value(b)
    IN  IF ~DefinesOrder(a.type) THEN NotImplemented
        ELSE IF (x.type = "str") # (y.type = "str") THEN NotImplemented
        ELSE IF a.type # "EventValue" /\ b.type = "EventValue"
             THEN NotImplemented
        ELSE IF op = "<" THEN Result(RawLess(x, y))
        ELSE IF op = "<=" THEN Result(RawLess(x, y) \/ RawEq(x, y))
        ELSE IF op = ">" THEN Result(RawLess(y, x))
        ELSE Result(RawLess(y, x) \/ RawEq(x, y))

Reflected(op) ==
    IF op = "<" THEN ">" ELSE IF op = "<=" THEN ">="
    ELSE IF op = ">" THEN "<" ELSE "<="

\* EventValue.__eq__(self, other) : other is made an EventValue first
EventValue_eq(self, other) == RawEq(self.v, EventValue(other).v)

\* a == b : the left operand's __eq__, else the right operand's
Equal(a, b) ==
    IF a.type = "EventValue" THEN EventValue_eq(a, b)
    ELSE IF b.type = "EventValue" THEN EventValue_eq(b, a)
    ELSE RawEq(a, b)

\* a op b as Python evaluates it : the method of the left operand, then
\* the reflected method of the right one, then TypeError for an ordering
Evaluated(a, op, b) ==
    IF op \in OrderingOps
    THEN LET first == OrderMethod(a, op, b)
             second == OrderMethod(b, Reflected(op), a)
         IN  IF first.implemented
             THEN [raised |-> FALSE, result |-> first.result]
             ELSE IF second.implemented
             THEN [raised |-> FALSE, result |-> second.result]
             ELSE [raised |-> TRUE, result |-> FALSE]
    ELSE [raised |-> FALSE,
          result |-> IF op = "==" THEN Equal(a, b) ELSE ~Equal(a, b)]

\* Two values and an operator, not evaluated yet
Comparison(a, op, b) ==
    [a |-> a, b |-> b, op |-> op, done |-> FALSE, raised |-> FALSE,
     result |-> FALSE]

CompareValues ==
    /\ ~cmp.done
    /\ cmp' = [cmp EXCEPT !.done = TRUE,
                          !.raised = Evaluated(cmp.a, cmp.op, cmp.b).raised,
                          !.result = Evaluated(cmp.a, cmp.op, cmp.b).result]
    /\ UNCHANGED <<seqvars, devvars, sigvars, extvars>>

ValueInit ==
    /\ SeqInit /\ DevInit /\ SigInit /\ ExtInit
    /\ cmp \in {Comparison(a, op, b) : a \in ComparedValues,
                                      op \in ComparisonOps,
                                      b \in ComparedValues}

ValueNext == CompareValues

ValueSpec == ValueInit /\ [][ValueNext]_vars

(***************************************************************************)
(* Properties of the Sequencer                                             *)
(***************************************************************************)
\* The order the specification states: time ascending, priority descending.
Earlier(a, b) ==
    \/ a.time < b.time
    \/ (a.time = b.time /\ a.priority > b.priority)

Count(s, x) == Cardinality({i \in DOMAIN s : s[i] = x})

SameEvents(a, b) == \A id \in 1..Len(evs) : Count(a, id) = Count(b, id)

\* This step calls the action() of one event.
Dispatches == Len(dispatched') = Len(dispatched) + 1

JustDispatched == dispatched'[Len(dispatched')]

\* Some pending event is earlier than the sequencer's time.
StalePending == \E i \in DOMAIN events : Earlier(evs[events[i]].time, time)

\* C1: the event run dispatches is one that no pending event precedes in
\* (time ascending, priority descending) order, and among the pending events
\* equal to it on both fields it is the one inserted first (ids count
\* insertions: add order, then the order in a callback's returned list).
C1_StableOrder ==
    [][Dispatches =>
          \A i \in DOMAIN events :
              LET o == events[i]
                  e == JustDispatched
              IN  o # e =>
                    /\ ~Earlier(evs[o].time, evs[e].time)
                    /\ (evs[o].time = evs[e].time => e < o)]_vars

\* Three events were dispatched, one pair against insertion order (sorted
\* by time or priority) and one pair of equal times in insertion order.
C1_Witness ==
    /\ \E i, j \in DOMAIN dispatched :
          i < j /\ dispatched[i] > dispatched[j]
    /\ \E i, j \in DOMAIN dispatched :
          /\ i < j
          /\ dispatched[i] < dispatched[j]
          /\ evs[dispatched[i]].time = evs[dispatched[j]].time

\* C2: Sequencer.time never decreases in EventTime order, over any sequence
\* of add / run / step / until / awhile calls.
C2_MonotoneTime == [][~Earlier(time', time)]_vars

\* The time advanced over at least two dispatches.
C2_Witness ==
    /\ Len(dispatched) >= 2
    /\ Earlier(EventTime(0, 0), time)
    /\ Earlier(evs[dispatched[1]].time, time)

\* C3: while a pending event is earlier than the sequencer's time, run fails
\* with the backwards-step error: no callback is invoked, the time is not
\* changed, and the pending events stay pending.
C3_BackwardsFatal ==
    [][(pc = "running" /\ StalePending) =>
          /\ pc' = "idle"
          /\ halt' = "backwards"
          /\ time' = time
          /\ dispatched' = dispatched
          /\ evs' = evs
          /\ SameEvents(events', events)]_vars

\* A run failed on a stale event after the sequencer had advanced, the
\* stale event still pending and not dispatched.
C3_Witness ==
    /\ pc = "idle"
    /\ halt = "backwards"
    /\ Earlier(EventTime(0, 0), time)
    /\ \E i \in DOMAIN events :
          /\ Earlier(evs[events[i]].time, time)
          /\ Count(dispatched, events[i]) = 0

C5_StopHalts ==
    [][(pc = "running" /\ run_mode \in {"until", "awhile"}) =>
          /\ stop # <<>>
          /\ stop[1].priority = 0
          /\ Dispatches => Earlier(evs[JustDispatched].time, stop[1])
          /\ (pc' = "idle" /\ halt' = "stop") =>
                /\ dispatched' = dispatched
                /\ SameEvents(events', events)
                /\ events' # <<>>
                /\ ~Earlier(evs[events'[1]].time, stop[1])]_vars

\* A run dispatched at least one event and halted at its stop time with
\* events pending.
C5_Witness ==
    /\ pc = "idle"
    /\ run_mode = "until"
    /\ halt = "stop"
    /\ run_count >= 1
    /\ events # <<>>

\* C6: a run with steps = n >= 0 (and no stop time) never dispatches more
\* than n events; it ends by exhausting its steps only after exactly n
\* dispatches, with the next event still pending, or by emptying the queue;
\* and the first event dispatched after a steps halt is the event that was
\* left at the head.
C6_StepsHalt ==
    [][/\ (pc = "running" /\ run_mode = "step") =>
             /\ run_steps \in 0..MaxSteps
             /\ run_count' <= run_steps
             /\ (pc' = "idle" /\ halt' = "steps") =>
                   /\ run_count' = run_steps
                   /\ dispatched' = dispatched
                   /\ SameEvents(events', events)
                   /\ events' # <<>>
             /\ pc' = "idle" => halt' \in {"steps", "empty", "backwards"}
             /\ (pc' = "idle" /\ halt' = "empty") => events' = <<>>
       /\ (pc = "running" /\ halt = "steps" /\ run_count = 0 /\ Dispatches) =>
             JustDispatched = events[1]]_vars

\* A run of n >= 1 steps halted after its n dispatches although callbacks
\* had returned further events, one of them left pending.
C6_Witness ==
    /\ pc = "idle"
    /\ run_mode = "step"
    /\ halt = "steps"
    /\ run_count >= 1
    /\ n_added < Len(evs)
    /\ events # <<>>

\* C7: an unbounded run() ends, and unless a pending event was earlier than
\* the sequencer's time it ends normally, with an empty queue and every
\* event dispatched exactly once; run on an empty queue returns at once and
\* changes neither the time nor anything dispatched.
C7_QueueEmptyHalt ==
    /\ [][(pc = "running" /\ run_mode = "run" /\ pc' = "idle") =>
             \/ (StalePending /\ halt' = "backwards")
             \/ /\ ~StalePending
                /\ halt' = "empty"
                /\ events' = <<>>
                /\ \A id \in 1..Len(evs') : Count(dispatched', id) = 1]_vars
    /\ [][(pc = "idle" /\ events = <<>> /\ events' = <<>>) =>
             /\ pc' = "idle"
             /\ time' = time
             /\ dispatched' = dispatched
             /\ halt' = "empty"]_vars
    /\ (pc = "running") ~> (pc = "idle")

\* An unbounded run emptied the queue, callbacks having returned events.
C7_Witness ==
    /\ pc = "idle"
    /\ run_mode = "run"
    /\ halt = "empty"
    /\ events = <<>>
    /\ run_count >= 2
    /\ n_added < Len(evs)

(***************************************************************************)
(* Properties of the Device                                                *)
(***************************************************************************)
\* The events in a handler's return value: none for None.
ReturnedEvents(raw) == raw.items

\* C8: a call of an input or action that returns, returns a list: the events
\* act and out made during the invocation, in call order, followed by the
\* Event or the Events the handler body returned; the deferred-event buffer
\* is empty afterwards.
C8_ReturnShape ==
    (dpc = "outside" /\ outcome.kind = "returned") =>
        /\ outcome.value.kind = "list"
        /\ outcome.value.items = produced \o ReturnedEvents(outcome.raw)
        /\ further_acts = <<>>

\* A handler scheduled an action, updated its output (whose connection
\* produced an event) and returned one bare Event: three events came back.
C8_Witness ==
    /\ dpc = "outside"
    /\ outcome.kind = "returned"
    /\ outcome.raw.kind = "Event"
    /\ Len(produced) = 2
    /\ produced[1].callback = "act_newdata"
    /\ produced[2].callback = "down.act_next"
    /\ Len(outcome.value.items) = 3

\* C9: while no handler of the device is executing, a call of act, out or
\* xto raises, and changes neither the device state, the output signal nor
\* the deferred-event buffer.
C9_GuardOutside ==
    [][(dpc = "outside" /\ (CallAct \/ CallOut \/ CallXto)) =>
          /\ last_op'.raised
          /\ state' = state
          /\ out1' = out1
          /\ further_acts' = further_acts]_vars

\* C10: xto called inside a handler with a current_states argument that
\* does not name the device's state raises, and the state stays as it was.
C10_XtoGuard ==
    [][(dpc = "body" /\ \E cs \in StateListArgs, new \in StateArgs \cup {"None"} :
                            state \notin Elems(cs) /\ Xto(cs, new)) =>
          /\ last_op'.raised
          /\ state' = state]_vars

\* C11: device.state starts as STATES[0] and is always a member of STATES;
\* xto given a current or new state name outside STATES raises and leaves
\* the state unchanged; xto with new_state omitted never changes the state.
C11_StateInvariant ==
    /\ state \in StateSet
    /\ (dpc = "outside" /\ outcome.kind = "none" /\ last_op.op = "none") =>
           state = STATES[1]
    /\ (last_op.op = "xto" /\ ~last_op.names_valid) =>
           (last_op.raised /\ state = last_op.state_before)
    /\ (last_op.op = "xto" /\ ~last_op.new_given) =>
           state = last_op.state_before

\* Inside handlers, xto moved the device away from STATES[0] and a later
\* xto naming an unknown state was refused.
C11_Witness ==
    /\ state = STATES[2]
    /\ last_op.op = "xto"
    /\ last_op.inside
    /\ last_op.raised
    /\ last_op.state_named
    /\ ~last_op.names_valid

\* C12: a call of an input or action wrapper of the device made while one
\* of its handlers is executing, directly or through the output signal
\* connected back to an input of the device, fails: the nested body does
\* not run.
C12_NoNestedHandler ==
    /\ outcome.nested => (outcome.kind = "raised" /\ dpc = "outside")
    /\ dpc = "body" => ~outcome.nested
    /\ (last_op.op = "out" /\ last_op.inside /\ ConnIn(LOOP, clients)) =>
           last_op.raised

\* A handler body that had scheduled an action updated the output, which
\* is connected back to an input of the device: the nested call failed.
C12_Witness ==
    /\ outcome.nested
    /\ outcome.kind = "raised"
    /\ last_op.op = "out"
    /\ last_op.inside
    /\ last_op.raised
    /\ further_acts # <<>>


\* The first of the candidate names that is a declared action of the device
RECURSIVE FirstDeclared(_)
FirstDeclared(candidates) ==
    IF candidates = <<>> THEN "None"
    ELSE IF Head(candidates) \in ActionNames THEN Head(candidates)
    ELSE FirstDeclared(Tail(candidates))

\* The Event a successful act call has just left at the end of the buffer
ActScheduled ==
    /\ last_op.op = "act"
    /\ ~last_op.raised
    /\ further_acts # <<>>

\* The str given to the act call noted in last_op
ActName == last_op.action_or_name.name

\* C13: as stated, act with a str name tries <name>, then act<name>, then
\* act_<name>, and the first match wins: on a device that declares both
\* newdata and act_newdata, act("newdata", t) schedules newdata.
C13_PlainFirst ==
    (ActScheduled /\ ~last_op.action_or_name.callable)
        => further_acts[Len(further_acts)].callback
             = FirstDeclared(<<ActName, "act" \o ActName, "act_" \o ActName>>)

\* C13: amended, act with a str name tries act_<name>, then act<name>, then
\* <name>, and the first match wins: on a device that declares both newdata
\* and act_newdata, act("newdata", t) schedules act_newdata.
C13_PrefixedFirst ==
    (ActScheduled /\ ~last_op.action_or_name.callable)
        => further_acts[Len(further_acts)].callback
             = FirstDeclared(<<"act_" \o ActName, "act" \o ActName, ActName>>)

C13_Witness ==
    /\ ActScheduled
    /\ last_op.inside
    /\ last_op.action_or_name = StrArg("newdata")
    /\ {"newdata", "act_newdata"} \subseteq ActionNames
    /\ further_acts[Len(further_acts)].callback = "act_newdata"


\* The action an act call names: the callable itself, or for a str the
\* first declared of act_<name>, act<name>, <name>
ActionMeant(action_or_name) ==
    IF action_or_name.callable THEN action_or_name.name
    ELSE FirstDeclared(<<"act_" \o action_or_name.name,
                         "act" \o action_or_name.name, action_or_name.name>>)

\* The handler invocation in progress is left as it is: no wrapper is
\* entered or left, and neither the state nor the output changes
BodyNotRun ==
    /\ dpc' = dpc
    /\ handler' = handler
    /\ current_time' = current_time
    /\ state' = state
    /\ out1' = out1
    /\ down_acts' = down_acts

\* C14: a call act(a, t) in a handler appends exactly one Event(t, a, None,
\* None) at the end of the batch of the enclosing invocation and runs no
\* handler body; the batch the invocation returns holds every event so
\* appended; act naming no action of the device, or called outside a
\* handler, raises and appends nothing.
C14_ActDefers ==
    [][/\ last_op'.op = "act" =>
            \A a \in ActArgs, t \in ActTimes :
                Act(a, t) =>
                    /\ last_op'.raised
                         <=> (current_time = <<>> \/ ActionMeant(a) \notin ActionNames)
                    /\ last_op'.raised => further_acts' = further_acts
                    /\ ~last_op'.raised =>
                         /\ further_acts' = further_acts \o
                              <<Event(EventTime(t, 0), ActionMeant(a), "None", "None")>>
                         /\ BodyNotRun
       /\ (dpc = "body" /\ outcome'.kind = "returned") =>
            \A i \in DOMAIN produced :
                produced[i] \in Elems(outcome'.value.items)
      ]_vars

C14_Witness ==
    /\ dpc = "outside"
    /\ outcome.kind = "returned"
    /\ last_op.op = "act" /\ last_op.inside /\ ~last_op.raised
    /\ produced # <<>>
    /\ produced[Len(produced)].callback = ActionMeant(last_op.action_or_name)
    /\ produced[Len(produced)] \in Elems(outcome.value.items)
    /\ further_acts = <<>>


\* The events the connections of out1 hand back for an update at time t:
\* the downstream input schedules its action one time unit later
DownstreamEvents(t) ==
    IF ConnIn(SCHED, clients)
    THEN <<Event(EventTime(t.time + 1, 0), "down.act_next", "None", "None")>>
    ELSE <<>>

\* C15: out(name, v) in a handler invoked at time t updates the output
\* signal with v (SIG_UNDEFINED when v is omitted) and calls the connections
\* with time t; every event they produce, the one scheduled by act in the
\* connected input of another device included, is added to the batch and
\* is in the list the calling handler returns, and the buffer of the
\* downstream device is left empty.
C15_OutPropagates ==
    [][/\ (last_op'.op = "out" /\ dpc = "body") =>
            \A v \in OutValues :
                (Out(v) /\ ~last_op'.raised) =>
                    /\ out1'.value = (IF v = "None" THEN SIG_UNDEFINED ELSE v)
                    /\ out1'.previous_value = out1.value
                    /\ further_acts' = further_acts \o DownstreamEvents(current_time[1])
                    /\ down_acts' = <<>>
       /\ (dpc = "body" /\ outcome'.kind = "returned" /\ last_op.op = "out") =>
            /\ \A i \in DOMAIN produced :
                   produced[i] \in Elems(outcome'.value.items)
            /\ down_acts' = <<>>
      ]_vars

C15_Witness ==
    /\ dpc = "outside"
    /\ outcome.kind = "returned"
    /\ last_op.op = "out" /\ last_op.inside /\ ~last_op.raised
    /\ out1.value = SIG_UNDEFINED
    /\ \E i \in DOMAIN outcome.value.items :
           /\ outcome.value.items[i].callback = "down.act_next"
           /\ outcome.value.items[i].time.time = MaxTime + 1
           /\ outcome.value.items[i] \in Elems(produced)
    /\ down_acts = <<>>


(***************************************************************************)
(* Properties of hooks and traces                                          *)
(***************************************************************************)
\* The identities of the hooks a table holds for a component; they are
\* numbered as they are registered
HookIds(hookset, name) ==
    {Get(hookset, name)[i].id : i \in DOMAIN Get(hookset, name)}

\* The part log[from..to] is made of calls of hooks of comp, with the
\* operation done or not, each hook of ids once, in registration order
CalledInOrder(log, from, to, comp, done, ids) ==
    /\ \A i \in from..to : log[i].comp = comp /\ log[i].done = done
    /\ \A i, j \in from..to : i < j => log[i].id < log[j].id
    /\ {log[i].id : i \in from..to} = ids

\* C16: in one invocation of an input or action, every pre-hook of the
\* component has run when the body starts, and when the invocation returns
\* its batch the hook calls made are: every pre-hook once, in registration
\* order, then what the body called, then every post-hook once, in
\* registration order.
C16_HookOrder ==
    [][/\ (dpc = "outside" /\ dpc' = "body") =>
            /\ Len(calls') = Len(Get(prehooks, handler'))
            /\ CalledInOrder(calls', 1, Len(calls'), handler', FALSE,
                             HookIds(prehooks, handler'))
       /\ (dpc = "body" /\ outcome'.kind = "returned") =>
            LET npre == Len(Get(prehooks, handler))
                npost == Len(Get(posthooks, handler))
                n == Len(calls')
            IN  /\ n >= npre + npost
                /\ CalledInOrder(calls', 1, npre, handler, FALSE,
                                 HookIds(prehooks, handler))
                /\ \A i \in (npre + 1)..(n - npost) : calls'[i].comp # handler
                /\ CalledInOrder(calls', n - npost + 1, n, handler, TRUE,
                                 HookIds(posthooks, handler))
      ]_vars

C16_Witness ==
    /\ dpc = "outside"
    /\ outcome.kind = "returned"
    /\ Len(calls) >= 3
    /\ Len(Get(prehooks, "in1")) = 1
    /\ Len(Get(posthooks, "in1")) = 1
    /\ calls[1] = Noted(prehooks["in1"][1], "in1", FALSE)
    /\ calls[2].comp = "xto"
    /\ calls[Len(calls)] = Noted(posthooks["in1"][1], "in1", TRUE)


\* C17: a hook on act, out or xto is invoked before the operation takes
\* effect (before the event is appended, the output updated, the state
\* changed), whatever call_after it was installed with.
C17_PseudoHooksBefore ==
    \A i \in DOMAIN calls :
        calls[i].comp \in PseudoNames => ~calls[i].done


\* Every hook a set of tables holds under a name, in any of the three
HooksUnder(T, name) ==
    Elems(Get(T.pre, name)) \cup Elems(Get(T.post, name))
        \cup Elems(Get(T.outh, name))

\* C18: after unhook(name), for a name with at least one hook installed,
\* the call has completed without error, no table holds a hook under the
\* name, the hooks it had on an output are disconnected from the signal,
\* and none of them is invoked by any later operation.
C18_UnhookByName ==
    (mgmt.op = "unhook_name" /\ HooksUnder(mgmt.before, mgmt.name) # {}) =>
        /\ ~mgmt.raised
        /\ HooksUnder(Tables, mgmt.name) = {}
        /\ \A hook \in HooksUnder(mgmt.before, mgmt.name) :
               /\ \A i \in DOMAIN clients : clients[i].id # hook.id
               /\ \A i \in DOMAIN calls : calls[i].id # hook.id

\* What tells the hooks of a list apart for whoever they call: the callable
\* and the context, in list order
Shape(hooklist) ==
    [i \in DOMAIN hooklist |-> <<hooklist[i].call, hooklist[i].call_context>>]

\* A list without the one hook object given
ExceptHook(hooklist, hook) == SelectSeq(hooklist, LAMBDA x : x.id # hook.id)

\* Two sets of tables hold the same hooks in the same order under every
\* name, and the signal has the same connections; a name without a list
\* counts as one with an empty list
SameTables(A, B) ==
    /\ \A n \in DOMAIN A.pre \cup DOMAIN B.pre :
           Shape(Get(A.pre, n)) = Shape(Get(B.pre, n))
    /\ \A n \in DOMAIN A.post \cup DOMAIN B.post :
           Shape(Get(A.post, n)) = Shape(Get(B.post, n))
    /\ \A n \in DOMAIN A.outh \cup DOMAIN B.outh :
           Shape(Get(A.outh, n)) = Shape(Get(B.outh, n))
    /\ Shape(A.clients) = Shape(B.clients)

\* The tables T with only the hook object given taken out
WithoutHook(T, hook) ==
    [pre |-> [n \in DOMAIN T.pre |-> ExceptHook(T.pre[n], hook)],
     post |-> [n \in DOMAIN T.post |-> ExceptHook(T.post[n], hook)],
     outh |-> [n \in DOMAIN T.outh |-> ExceptHook(T.outh[n], hook)],
     clients |-> ExceptHook(T.clients, hook)]

\* C19: after unhook(h) the tables and the connections of the output
\* signal are what they were with h alone taken out: every other hook on
\* every component is still installed, in unchanged relative order.
C19_UnhookByHandle ==
    mgmt.op = "unhook_handle" =>
        SameTables(Tables, WithoutHook(mgmt.before, mgmt.handle))

\* The tables hold, under the name, a trace hook they did not hold before
TraceAdded(before, name) ==
    \E hook \in HooksUnder(Tables, name) \ HooksUnder(before, name) :
        hook.call = "trace"

\* C20: trace("*") installs a trace hook for every input, every action,
\* every output and each of act, out, xto; untrace("*") right after it
\* leaves the hook tables and the connections of the output signals as
\* they were before the trace("*").
C20_TraceRoundTrip ==
    /\ (mgmt.op = "trace" /\ mgmt.name = "*") =>
           \A n \in InputNames \cup ActionNames \cup OutputNames \cup PseudoNames :
               TraceAdded(mgmt.before, n)
    /\ mgmt.paired => SameTables(Tables, mgmt.before)


\* C21: whatever a hook callback returns is never scheduled: the Event a
\* "cb" hook returns is neither in the batch being collected nor in the
\* batch a handler invocation has returned.
C21_HookReturnsDropped ==
    /\ \A i \in DOMAIN further_acts : further_acts[i].callback # "cb.spawned"
    /\ outcome.kind = "returned" =>
           \A i \in DOMAIN outcome.value.items :
               outcome.value.items[i].callback # "cb.spawned"


(***************************************************************************)
(* Properties of Signal                                                    *)
(***************************************************************************)
\* C22: after signal.update(t, v), signal.value is v and previous_value is
\* the value the signal held just before the update; and every connection
\* called during the update saw the signal showing already v as value and
\* the prior value as previous_value.
C22_SignalRoundTrip ==
    sig_op.op = "update" =>
        /\ signal.value = sig_op.value
        /\ signal.previous_value = sig_op.was
        /\ \A i \in DOMAIN notified :
               /\ notified[i].shown = sig_op.value
               /\ notified[i].shown_previous = sig_op.was

C22_Witness ==
    /\ sig_op.op = "update"
    /\ sig_op.was = "1"
    /\ signal = [value |-> "2", previous_value |-> "1"]
    /\ Len(notified) >= 2


\* The call noted at place i of the latest update was made to connection c
\* with the time and value of the update and the context of c
CalledWith(i, c) ==
    /\ notified[i].id = c.id
    /\ notified[i].call = c.call
    /\ notified[i].call_context = c.call_context
    /\ notified[i].time = sig_op.time
    /\ notified[i].value = sig_op.value

C24_ConnectPosition ==
    (sig_op.op = "connect" /\ ~ConnIn(sig_op.handle, sig_op.before)) =>
        connected_clients =
            IF sig_op.index = -1 THEN Append(sig_op.before, sig_op.handle)
            ELSE <<sig_op.handle>> \o sig_op.before


\* The places of a list holding a connection of the same callable and
\* context as c
PlacesOf(conns, c) ==
    {i \in DOMAIN conns : /\ conns[i].call = c.call
                          /\ conns[i].call_context = c.call_context}

\* C25: as stated, connections are told apart as objects: every connect
\* call adds the connection it returns to the list, also when one of the
\* same callable and context is there, and disconnect takes out only the
\* connection object it is given.
C25_IdentityBased ==
    /\ sig_op.op = "connect" =>
           /\ Len(connected_clients) = Len(sig_op.before) + 1
           /\ \E i \in DOMAIN connected_clients :
                  connected_clients[i].id = sig_op.handle.id
    /\ sig_op.op = "disconnect" =>
           connected_clients = ExceptHook(sig_op.before, sig_op.handle)

\* C25: amended, connections are told apart by callable and context: a
\* connect call of a callable and context already connected returns a new
\* handle but leaves the list as it is, so the list never holds two
\* connections of the same callable and context and an update calls it
\* once; the same callable with another context is a connection of its
\* own; disconnect through any handle of the same callable and context
\* takes that connection out.
C25_EqualityBased ==
    /\ \A i \in DOMAIN connected_clients :
           PlacesOf(connected_clients, connected_clients[i]) = {i}
    /\ sig_op.op = "connect" =>
           IF PlacesOf(sig_op.before, sig_op.handle) # {}
           THEN connected_clients = sig_op.before
           ELSE /\ Len(connected_clients) = Len(sig_op.before) + 1
                /\ PlacesOf(connected_clients, sig_op.handle) # {}
    /\ sig_op.op = "disconnect" =>
           PlacesOf(connected_clients, sig_op.handle) = {}
    /\ sig_op.op = "update" =>
           \A i \in DOMAIN sig_op.before :
               Cardinality(PlacesOf(notified, sig_op.before[i])) = 1

C25_Witness ==
    /\ sig_op.op = "connect"
    /\ \E i \in PlacesOf(sig_op.before, sig_op.handle) :
           sig_op.before[i].id # sig_op.handle.id
    /\ connected_clients = sig_op.before
    /\ \E i, j \in DOMAIN connected_clients :
           /\ connected_clients[i].call = connected_clients[j].call
           /\ connected_clients[i].call_context # connected_clients[j].call_context


\* A list without the connections of the same callable and context as c,
\* the others in the order they had
Others(conns, c) ==
    SelectSeq(conns, LAMBDA x : ~(x.call = c.call /\ x.call_context = c.call_context))

IdsOf(s) == [i \in DOMAIN s |-> s[i].id]

\* C27: an update notifies the connections that were in the list when it
\* was called, in the order they had then, each exactly once, whatever the
\* callables connect or disconnect while they are notified; a connection
\* added during the update is not notified by it.
C27_SnapshotBroadcast ==
    sig_op.op = "update" => IdsOf(notified) = IdsOf(sig_op.before)


\* The places of a list of connections, or of a log of calls, that are the
\* trace connection's
TracePlaces(s) == {i \in DOMAIN s : s[i].call = "_call_trace"}

\* C28: a first trace() call puts one trace connection at index 0 of the
\* list, in front of the connections there; every further consecutive
\* trace() call changes nothing, so the traced signal has exactly one trace
\* connection, and an update of it calls the trace sink exactly once.
C28_TraceIdempotent ==
    [][/\ (sig_op'.op = "trace" /\ sig_op'.n = sig_op.n + 1) =>
            /\ IF sig_op'.traced
               THEN UNCHANGED <<connected_clients, trace_connection>>
               ELSE /\ TracePlaces(connected_clients') = {1}
                    /\ Tail(connected_clients') = connected_clients
            /\ trace_connection' # <<>>
            /\ Cardinality(TracePlaces(connected_clients')) = 1
       /\ (sig_op'.op = "update" /\ sig_op'.n = sig_op.n + 1 /\ sig_op'.traced) =>
            Cardinality(TracePlaces(notified')) = 1
      ]_vars

C28_Witness ==
    /\ sig_op.op = "trace"
    /\ sig_op.traced
    /\ Len(connected_clients) >= 2
    /\ TracePlaces(connected_clients) = {1}
    /\ connected_clients = sig_op.before


\* A list of connections without the trace connection
Untrac(conns) == SelectSeq(conns, LAMBDA x : x.call # "_call_trace")

\* C29: an update calls the trace sink once if the signal is traced when
\* the update is made and not at all otherwise; untrace() empties the trace
\* slot and takes the trace connection out, leaving the other connections
\* as they were, so that trace() followed by untrace() leaves the list as
\* it was before; trace() after untrace() installs the trace again.
C29_TraceRoundTrip ==
    [][/\ (sig_op'.op = "update" /\ sig_op'.n = sig_op.n + 1) =>
            Cardinality(TracePlaces(notified')) = (IF trace_connection # <<>> THEN 1 ELSE 0)
       /\ (sig_op'.op = "untrace" /\ sig_op'.n = sig_op.n + 1) =>
            /\ trace_connection' = <<>>
            /\ connected_clients' = Untrac(connected_clients)
            /\ (sig_op.op = "trace" /\ ~sig_op.traced)
                 => connected_clients' = sig_op.before
       /\ (sig_op.op = "untrace" /\ sig_op'.op = "trace") =>
            /\ trace_connection' # <<>>
            /\ TracePlaces(connected_clients') = {1}
      ]_vars

C29_Witness ==
    /\ sig_op.op = "untrace"
    /\ sig_op.traced
    /\ TracePlaces(notified) # {}
    /\ TracePlaces(sig_op.before) # {}
    /\ connected_clients # <<>>
    /\ connected_clients = Untrac(sig_op.before)
    /\ trace_connection = <<>>


(***************************************************************************)
(* Properties of EventTime                                                 *)
(***************************************************************************)
\* C30: a < b exactly when a.time < b.time, or the times are equal and
\* a.priority > b.priority; of a < b, a == b and b < a exactly one holds;
\* and a < b with b < c gives a < c.
C30_StrictTotalOrder ==
    cmp.done =>
        /\ cmp.lt_ab <=> \/ cmp.a.time < cmp.b.time
                         \/ (cmp.a.time = cmp.b.time
                               /\ cmp.a.priority > cmp.b.priority)
        /\ Cardinality({x \in {"lt", "eq", "gt"} :
                           \/ (x = "lt" /\ cmp.lt_ab)
                           \/ (x = "eq" /\ cmp.eq_ab)
                           \/ (x = "gt" /\ cmp.lt_ba)}) = 1
        /\ (cmp.lt_ab /\ cmp.lt_bc) => cmp.lt_ac

C30_Witness ==
    /\ cmp.done
    /\ cmp.a.time = cmp.b.time
    /\ cmp.a.priority > cmp.b.priority
    /\ cmp.lt_ab /\ ~cmp.lt_ba /\ ~cmp.eq_ab
    /\ cmp.lt_bc /\ cmp.lt_ac

(***************************************************************************)
(* Further properties of the Sequencer                                     *)
(***************************************************************************)
\* The run in progress halts at its stop time or with its steps exhausted.
HaltsShort == pc = "running" /\ pc' = "idle" /\ halt' \in {"steps", "stop"}

\* C34: as stated, a run that halts because its steps are exhausted or its
\* stop time is reached leaves sequencer.time as it was before the head
\* event was looked at: the time of the last event dispatched.
C34_TimeOfLastDispatched == [][HaltsShort => time' = time]_vars

\* The first pass of a run that follows a run halted short, a pending event
\* being earlier than the sequencer's time.
StaleAfterHalt ==
    /\ pc = "running"
    /\ run_count = 0
    /\ halt \in {"steps", "stop"}
    /\ StalePending

\* C34: amended, a run that halts because its steps are exhausted or its
\* stop time is reached leaves sequencer.time at the time of the head event
\* it left un-dispatched; an event later added with a time earlier than
\* that head event makes the next run fail with the backwards step error,
\* nothing being dispatched.
C34_TimeOfHeadLeft ==
    /\ [][HaltsShort =>
             /\ events' # <<>>
             /\ time' = evs[events'[1]].time
             /\ dispatched' = dispatched]_vars
    /\ [][StaleAfterHalt =>
             /\ pc' = "idle"
             /\ halt' = "backwards"
             /\ time' = time
             /\ dispatched' = dispatched]_vars

\* After a dispatch a run was halted short, and an event was added that is
\* earlier than the head left but not earlier than the last event
\* dispatched.
C34_Witness ==
    /\ StaleAfterHalt
    /\ dispatched # <<>>
    /\ \E i \in DOMAIN events :
          /\ Earlier(evs[events[i]].time, time)
          /\ ~Earlier(evs[events[i]].time,
                      evs[dispatched[Len(dispatched)]].time)

\* The event the next pass of run's loop looks at
HeadEvent == Head(Sort(events, evs))

\* C35: as stated, a run with a stop time t never dispatches an event whose
\* numeric time is t or more, whatever the priority of the event.
C35_StopByNumericTime ==
    [][(pc = "running" /\ stop # <<>> /\ Dispatches) =>
          evs[JustDispatched].time.time < stop[1].time]_vars

\* C35: amended, a run with a stop time t never dispatches an event whose
\* numeric time is more than t, or is t with a zero or negative priority,
\* and halts with it pending; an event at numeric time t with a positive
\* priority is earlier than EventTime(t) and is dispatched.
C35_StopByEventTime ==
    /\ [][(pc = "running" /\ stop # <<>> /\ Dispatches) =>
             \/ evs[JustDispatched].time.time < stop[1].time
             \/ /\ evs[JustDispatched].time.time = stop[1].time
                /\ evs[JustDispatched].time.priority > 0]_vars
    /\ [][(pc = "running" /\ stop # <<>> /\ ~StalePending) =>
             IF \/ evs[HeadEvent].time.time > stop[1].time
                \/ /\ evs[HeadEvent].time.time = stop[1].time
                   /\ evs[HeadEvent].time.priority <= 0
             THEN /\ pc' = "idle"
                  /\ halt' = "stop"
                  /\ dispatched' = dispatched
                  /\ SameEvents(events', events)
             ELSE /\ Dispatches
                  /\ JustDispatched = HeadEvent]_vars

\* A run with a stop time t has dispatched an event at numeric time t with a
\* positive priority, and an event at time t with a negative priority is
\* pending.
C35_Witness ==
    /\ pc = "running"
    /\ stop # <<>>
    /\ run_count >= 1
    /\ evs[dispatched[Len(dispatched)]].time.time = stop[1].time
    /\ evs[dispatched[Len(dispatched)]].time.priority > 0
    /\ \E i \in DOMAIN events :
          /\ evs[events[i]].time.time = stop[1].time
          /\ evs[events[i]].time.priority < 0

\* The events the callback dispatched in this step returned
ReturnedIds == {id \in 1..Len(evs') : id > Len(evs)}

\* A pass of a run that has dispatched an event already
Continuing == pc = "running" /\ run_count >= 1

FailsBackwards == pc' = "idle" /\ halt' = "backwards"

\* C36: as stated, an event a callback returns is not behind the sequencer
\* when its numeric time is that of the event being dispatched or more,
\* whatever its priority, and a continuing run fails with the backwards
\* step error only on an event of a smaller numeric time.
C36_AcceptedByNumericTime ==
    /\ [][Dispatches =>
             \A id \in ReturnedIds :
                 evs'[id].time.time >= evs[JustDispatched].time.time =>
                     ~Earlier(evs'[id].time, time')]_vars
    /\ [][(Continuing /\ FailsBackwards) =>
             evs[HeadEvent].time.time < time.time]_vars

\* C36: amended, an event a callback returns is accepted when it is not
\* earlier in EventTime order than the event being dispatched: its numeric
\* time is greater, or equal with a priority that is not higher. A returned
\* event of the same numeric time and a higher priority is behind the
\* sequencer, and the continuing run fails on it with the backwards step
\* error, without dispatching anything.
C36_AcceptedByEventTime ==
    /\ [][Dispatches =>
             \A id \in ReturnedIds :
                 Earlier(evs'[id].time, time') <=>
                     \/ evs'[id].time.time < evs[JustDispatched].time.time
                     \/ /\ evs'[id].time.time = evs[JustDispatched].time.time
                        /\ evs'[id].time.priority
                              > evs[JustDispatched].time.priority]_vars
    /\ [][Continuing =>
             IF StalePending
             THEN /\ FailsBackwards
                  /\ dispatched' = dispatched
                  /\ time' = time
             ELSE ~FailsBackwards]_vars

\* A run failed after a dispatch on an event of the numeric time of the
\* event dispatched last, but of a higher priority.
C36_Witness ==
    /\ pc = "idle"
    /\ halt = "backwards"
    /\ run_count >= 1
    /\ time = evs[dispatched[Len(dispatched)]].time
    /\ evs[HeadEvent].time.time = time.time
    /\ evs[HeadEvent].time.priority > time.priority
    /\ Count(dispatched, HeadEvent) = 0

\* The events the callback dispatched in this step passed to Sequencer.add
ReaddedIds ==
    {id \in 1..Len(evs') : id > Len(evs) /\ id <= Len(evs) + n_added' - n_added}

\* C37: an event passed to Sequencer.add by a callback that run is
\* dispatching is in the pending list, once, when the callback has
\* returned, as an event the callback returns is.
C37_ReentrantAdd ==
    [][Dispatches =>
          \A id \in ReaddedIds \cup ReturnedIds : Count(events', id) = 1]_vars

IsPrefix(a, b) == Len(a) <= Len(b) /\ a = SubSeq(b, 1, Len(a))

\* C40: whatever sequence of step, until, awhile and run calls is made on a
\* queue of seeded events, the events dispatched so far are, in order, the
\* first events one unbounded run() dispatches; they are all of them, in
\* the same order, when the queue has been emptied and when a final run()
\* has ended.
C40_PiecewiseRun ==
    /\ IsPrefix(dispatched, OneRun)
    /\ (pc = "idle" /\ events = <<>>) => dispatched = OneRun
    /\ (pc = "idle" /\ run_mode = "run") => dispatched = OneRun

\* The queue was emptied by a third call at least, a step(1) that followed
\* a run halted short, with two events of equal times dispatched and a
\* callback having returned an event.
C40_Witness ==
    /\ pc = "idle"
    /\ events = <<>>
    /\ run_mode = "step"
    /\ halt = "empty"
    /\ run_count = 1
    /\ Len(dispatched) >= 3
    /\ n_added < Len(evs)
    /\ \E i, j \in DOMAIN dispatched :
          i < j /\ evs[dispatched[i]].time = evs[dispatched[j]].time

(***************************************************************************)
(* Further properties of the Device                                        *)
(***************************************************************************)
\* The latest call of an input or action ended by an exception, and no
\* handler is executing.
AfterFailure == dpc = "outside" /\ outcome.kind = "raised"

\* C38: when a call of an input or action has raised, the guard
\* current_time is clear and the deferred-event buffer is empty, so that the
\* next call of a handler, with a supported value, starts its body.
C38_GuardReleased ==
    /\ [](AfterFailure => (current_time = <<>> /\ further_acts = <<>>))
    /\ [][(AfterFailure /\ \E h \in InputNames \cup ActionNames, t \in DevTimes :
                              Call(h, t, "1")) =>
             (dpc' = "body" /\ outcome'.kind = "none")]_vars

\* C39: a call of xto with a list the caller keeps leaves the list as it
\* was: it holds what it held before the call, whether xto returns or
\* raises, so that the same call made again checks the same states.
C39_XtoKeepsArguments ==
    [][held'.n = held.n + 1 =>
          /\ held'.list = held.list
          /\ held'.list = held.made]_vars

(***************************************************************************)
(* Properties of the minimal-device scenario                               *)
(***************************************************************************)
SeedIds == 1..n_added

\* The seeded events than which none is later
LatestSeeds == {i \in SeedIds : \A j \in SeedIds : evs[j].time.time <= evs[i].time.time}

\* No two seeded events have the same time
DistinctSeedTimes ==
    \A i, j \in SeedIds : i # j => evs[i].time.time # evs[j].time.time

\* The unbounded run has ended
RunOver == pc = "idle" /\ run_mode = "run"

\* The run ended without error, the device idle, out1 showing the value of
\* a latest in1 event (and SIG_UNDEFINED before it)
CompletedWell ==
    /\ halt = "empty"
    /\ events = <<>>
    /\ outcome.kind = "returned"
    /\ state = "idle"
    /\ \E i \in LatestSeeds : out1.value = SeedValue(i)
    /\ out1.previous_value = SIG_UNDEFINED

\* C31: as stated, for any seeded in1 events the unbounded run completes
\* without error, the device is idle and out1.value is the value of the
\* latest in1 event.
C31_AnySeeds == RunOver => CompletedWell

\* C31: amended, for seeded in1 events at pairwise different times the
\* unbounded run completes without error, the device is idle and
\* out1.value is the value of the latest in1 event; with one seeded event
\* out1.previous_value is SIG_UNDEFINED and the events dispatched are the
\* in1 and its act_newdata.
C31_DistinctSeeds ==
    /\ (RunOver /\ DistinctSeedTimes) => CompletedWell
    /\ (RunOver /\ n_added = 1) => dispatched = <<1, 2>>

\* S4: two in1 events were seeded, the second before the first was complete,
\* and the run has ended with the value of the second on out1.
C31_Witness ==
    /\ RunOver
    /\ n_added = 2
    /\ evs[1].time.time < evs[2].time.time
    /\ evs[2].time.time < evs[1].time.time + t_delay
    /\ Len(dispatched) = 4
    /\ state = "idle"
    /\ out1.value = SeedValue(2)

(***************************************************************************)
(* Properties of EventValue                                                *)
(***************************************************************************)
\* C33: <, <=, > and >= with an EventValue on either side, the other side
\* an EventValue or a raw value, raise; == and != with an EventValue on
\* either side raise nothing, and tell whether the raw values held are
\* equal, a raw int, float or str operand being taken as the value it is.
C33_NoValueOrder ==
    (cmp.done /\ "EventValue" \in {cmp.a.type, cmp.b.type}) =>
        IF cmp.op \in OrderingOps THEN cmp.raised
        ELSE /\ ~cmp.raised
             /\ cmp.result <=>
                   LET x == IF cmp.a.type = "EventValue" THEN cmp.a.v ELSE cmp.a
                       y == IF cmp.b.type = "EventValue" THEN cmp.b.v ELSE cmp.b
                       same == IF "str" \in {x.type, y.type} THEN x = y
                               ELSE x.num = y.num
                   IN  IF cmp.op = "==" THEN same ELSE ~same

\* A raw number was compared by >= with an EventValue holding a greater
\* number, and the comparison raised.
C33_Witness ==
    /\ cmp.done
    /\ cmp.op = ">="
    /\ cmp.a = Raw("int", "1", 1)
    /\ cmp.b = EventValue(Raw("int", "2", 2))
    /\ cmp.raised

(***************************************************************************)
(* Properties of Sequencer.interact                                        *)
(***************************************************************************)
\* A line of digits with one "." among them, as 1.0 or 1.
IsDecimal(text) ==
    /\ Len(text) >= 2
    /\ text[1] \in Digits
    /\ Cardinality({i \in DOMAIN text : text[i] = "."}) = 1
    /\ \A i \in DOMAIN text : text[i] \in Digits \cup {"."}

\* The whole part of a decimal
WholeOf(text) ==
    Number(SubSeq(text, 1, (CHOOSE i \in DOMAIN text : text[i] = ".") - 1))

\* This step enters a run of the given kind
Enters(mode) == pc' = "running" /\ run_mode' = mode /\ events' = events

RunsNothing == UNCHANGED seqvars

\* C32: an empty line runs one step, q quits, * runs to completion, a
\* decimal runs for that period, a negative decimal -t runs until time t,
\* a plain integer n runs n steps, and any other line only prints the help
\* line, nothing being run; the loop has ended when the queue is empty.
C32_InteractCommands ==
    [][(ask'.n = ask.n + 1 /\ events # <<>>) =>
          LET text == Strip(Lower(ask'.line))
          IN  IF text = <<>>
              THEN Enters("step") /\ halt_steps' = 1
              ELSE IF text[1] = "q" THEN ask'.did = "quit" /\ RunsNothing
              ELSE IF text[1] = "*"
                   THEN Enters("run") /\ halt_steps' = -1 /\ stop' = <<>>
              ELSE IF IsDecimal(text)
                   THEN /\ Enters("awhile")
                        /\ stop' = <<EventTime_add(time, WholeOf(text))>>
              ELSE IF text[1] = "-" /\ IsDecimal(Tail(text))
                   THEN /\ Enters("until")
                        /\ stop' = <<EventTime(WholeOf(Tail(text)), 0)>>
              ELSE IF AllDigits(text)
                   THEN Enters("step") /\ halt_steps' = Number(text)
              ELSE ask'.did = "help" /\ RunsNothing]_vars

=============================================================================
